---- MODULE Spec2Model ----
(***************************************************************************)
(* codex-orchestrator: job registry, status refresher, session adapter and *)
(* claim registry, as one state machine.                                   *)
(*                                                                         *)
(* Text is a sequence of lines; a line is one of the line kinds below.     *)
(* Time is counted in whole days.  A session is named after its job id     *)
(* (getSessionName), so sessions are indexed by job id.                    *)
(***************************************************************************)
EXTENDS Integers, Sequences, FiniteSets, TLC

\* ---------------------------------------------------------------- bounds
MaxJobs == 1
SweepJobs == 1
MaxOutput == 2
MaxTime == 2
MaxAgeDays == 1
PaneHeight == 2
MaxIdLen == 9
MaxOddChars == 2
MaxClaims == 2
MaxPatternLen == 3
MaxTextLen == 4
MaxRecords == 2
MaxPatchLines == 2
MaxRawLines == 2
CleanJobs == 2
MaxRetry == 3
MaxPatterns == 3

\* ------------------------------------------------------------- constants
\* The marker line the session wrapper echoes after the agent exits.
Marker == "[codex-agent: Session complete"

\* Line kinds an agent can print: plain text and two error signatures.
ErrLine == "Error: request failed"
ExitLine == "process exited with code 2"
PlainLine == "working"
AgentLines == {PlainLine, ErrLine, ExitLine}

Patterns == {"src/**"}

TerminalStatuses == {"completed", "failed", "cancelled"}

\* null / undefined for text values (no line kind equals it).
Null == <<"<null>">>

NoTime == 0 - 1

CancelledByUser == <<"Cancelled by user">>

\* The persisted shape of a job id with no record file.
NoJob ==
  [status |-> "none", tmuxSession |-> FALSE, createdAt |-> NoTime,
   completedAt |-> NoTime, result |-> Null, error |-> Null]

VARIABLES
  jobs,      \* job id -> persisted job record (NoJob when no file)
  claims,    \* the claim store: a sequence of [jobId, pattern]
  sess,      \* job id -> the tmux session of that job and what it printed
  nextId,    \* the next job id generateJobId hands out
  starting,  \* job id -> when its startJob began (NoTime: none in progress)
  now,       \* the clock, in days
  last,      \* the last registry operation and what it observed
  idText,    \* a candidate job id, as typed: a sequence of characters
  sessionName, \* what getSessionName made of the last id it was given
  disk,      \* the jobs directory: <<id, extension>> -> file content
  storeRet,  \* the last call on the jobs directory and what it returned
  pc,        \* where the session adapter stands: idle, or a step of createSession
  req,       \* the adapter call in progress (or the last one) and what it met
  cmds,      \* the tmux commands and file operations that call has made
  world,     \* whether the job's tmux session and its prompt file exist
  wait,      \* waitForPaneContent in progress: time elapsed, polls made
  waits,     \* what the waits of this createSession returned
  ret,       \* what the last adapter call returned
  claimsFile, \* the text of the claim store file, token by token
  coord,     \* coordinator process -> its claim store call and where it stands
  versions,  \* the complete lists the claim store holds or is being given
  ledger,    \* the claims added and not removed since, in order of return
  call,      \* a call of a text function: its name, arguments and result
  cli        \* the polling loops and commands in progress, and their locals

registryVars == <<jobs, claims, sess, nextId, starting, now, last>>
idVars == <<idText, sessionName>>
storeVars == <<disk, storeRet>>
adapterVars == <<pc, req, cmds, world, wait, waits, ret>>

claimVars == <<claimsFile, coord, versions, ledger>>

\* The variables the job registry and its sessions leave alone.
otherVars == <<idVars, storeVars, adapterVars, claimVars, call, cli>>

\* The variables a typed id, the jobs directory, the session adapter, the claim
\* store file and a text function leave alone.
besideId == <<registryVars, storeVars, adapterVars, claimVars, call, cli>>
besideStore == <<registryVars, idVars, adapterVars, claimVars, call, cli>>
besideAdapter == <<registryVars, idVars, storeVars, claimVars, call, cli>>
besideClaims == <<registryVars, idVars, storeVars, adapterVars, call, cli>>
besideCall == <<registryVars, idVars, storeVars, adapterVars, claimVars, cli>>

\* The variables a polling loop or command leaves alone, the registry aside.
besideCli == <<idVars, storeVars, adapterVars, claimVars, call>>

vars == <<registryVars, otherVars>>

\* The job ids of this run: generateJobId hands them out in order.
JobIds == DOMAIN jobs

\* ------------------------------------------------------------ text helpers
LastLines(text, n) ==
  IF Len(text) <= n THEN text ELSE SubSeq(text, Len(text) - n + 1, Len(text))

FirstLines(text, n) ==
  IF Len(text) <= n THEN text ELSE SubSeq(text, 1, n)

Contains(text, line) == \E i \in 1..Len(text) : text[i] = line

RECURSIVE Join(_, _)
Join(parts, sep) ==
  IF Len(parts) = 0 THEN <<>>
  ELSE IF Len(parts) = 1 THEN <<parts[1]>>
  ELSE <<parts[1], sep>> \o Join(Tail(parts), sep)

\* ------------------------------------------------------------ environment
\* What the session has printed so far: the agent's lines, then the wrapper's
\* marker once the agent has exited.
Scrollback(j) ==
  IF sess[j].phase = "wrapper" THEN Append(sess[j].lines, Marker)
  ELSE sess[j].lines

\* What tmux capture-pane prints without -S: the visible pane.
VisiblePane(j) == LastLines(Scrollback(j), PaneHeight)

\* The transcript file written by script(1): the agent's lines only.
TranscriptFile(j) == sess[j].lines

SessionUp(j) == sess[j].phase \in {"agent", "wrapper"}

\* -------------------------------------------------------- session adapter
\* A has-session that reports every session as present.
sessionExistsAlways(j) == TRUE

\* A has-session whose exit status is read the wrong way round.
sessionExistsNegated(j) == ~SessionUp(j)

\* tmux has-session -t <name> exits 0 exactly when the session exists.
sessionExists(j) == SessionUp(j)

\* runTmuxOutput(["capture-pane", ...]): throws (Null here) when tmux exits
\* non-zero: the command failed (~ok) or the target session is not there.
TmuxCapture(j, start, ok) ==
  IF ~ok \/ ~SessionUp(j) THEN Null
  ELSE IF start = "-" THEN Scrollback(j)
  ELSE VisiblePane(j)

\* A capturePane that lost the negation of its existence check.
capturePaneNegated(j, lines, start, ok) ==
  IF sessionExists(j) THEN Null
  ELSE TmuxCapture(j, start, ok)

\* capturePane(sessionName, {lines, start}); lines = 0 and start = "none"
\* stand for options left undefined.
capturePane(j, lines, start, ok) ==
  IF ~sessionExists(j) THEN Null
  ELSE LET output == TmuxCapture(j, start, ok)
       IN IF output = Null THEN Null
          ELSE IF lines # 0 THEN LastLines(output, lines)
          ELSE output

\* A captureFullHistory that forgot -S - and captures the visible pane only.
captureFullHistoryVisible(j, ok) ==
  IF ~sessionExists(j) THEN Null
  ELSE TmuxCapture(j, "none", ok)

captureFullHistory(j, ok) ==
  IF ~sessionExists(j) THEN Null
  ELSE TmuxCapture(j, "-", ok)

\* killSession: its return value, and the sessions after it.  kill-session
\* can exit non-zero (~ok), which leaves the session as it was.
killSession(j, ok) == sessionExists(j) /\ ok /\ SessionUp(j)

SessAfterKill(j, ok) ==
  IF killSession(j, ok) THEN [sess EXCEPT ![j].phase = "gone"] ELSE sess

\* sendMessage: paste the text, then Enter.  While the agent runs the text
\* shows up in the pane; once the wrapper waits in `read`, Enter ends it and
\* the session closes.
sendMessage(j, ok) == sessionExists(j) /\ ok /\ SessionUp(j)

SessAfterSend(j, line, ok) ==
  IF ~sendMessage(j, ok) THEN sess
  ELSE IF sess[j].phase = "wrapper" THEN [sess EXCEPT ![j].phase = "gone"]
  ELSE [sess EXCEPT ![j].lines = Append(@, line)]

\* ---------------------------------------------------------- claim registry
loadClaims == claims

\* An addClaim that puts the new record first.
addClaimFirst(store, j, pattern) ==
  <<[jobId |-> j, pattern |-> pattern, claimedAt |-> now]>> \o store

addClaim(store, j, pattern) ==
  Append(store, [jobId |-> j, pattern |-> pattern, claimedAt |-> now])

\* A removeClaims whose filter keeps the job's claims and drops the others.
removeClaimsInverted(store, j) ==
  LET Keep(c) == c.jobId = j IN SelectSeq(store, Keep)

removeClaims(store, j) ==
  LET Keep(c) == c.jobId # j IN SelectSeq(store, Keep)

listClaims == loadClaims

ClaimsOf(j) == {i \in 1..Len(claims) : claims[i].jobId = j}

\* ------------------------------------------------------------ job registry
loadJob(j) == jobs[j]

saveJob(store, j, job) == [store EXCEPT ![j] = job]

listJobs == {j \in JobIds : jobs[j].status # "none"}

\* deleteJob: the record file (and the transcript and prompt files) removed.
deleteJob(store, j) == [store EXCEPT ![j] = NoJob]

\* --------------------------------------------------------- status refresher
\* The error signatures, in the order they are tried, and what each reports.
Signatures == <<ErrLine, ExitLine>>

MatchText(sig) ==
  IF sig = ErrLine THEN "Error line detected" ELSE "Non-zero process exit"

RECURSIVE MatchesFrom(_, _)
MatchesFrom(output, i) ==
  IF i > Len(Signatures) THEN <<>>
  ELSE (IF Contains(output, Signatures[i])
        THEN <<MatchText(Signatures[i])>> ELSE <<>>)
       \o MatchesFrom(output, i + 1)

detectErrors(output) == MatchesFrom(output, 1)

\* The tail of the transcript kept as the result of a vanished session.
ResultTailLines == 1

readTranscriptTail(j, readOk) ==
  IF readOk THEN LastLines(TranscriptFile(j), ResultTailLines) ELSE Null

\* The rest of refreshJobStatus once the record is loaded: the record it
\* returns and whether it saved it.  capOk / fullOk: the two capture commands
\* exit 0; readOk: the transcript file can be read.
refreshLoaded(job, j, capOk, fullOk, readOk) ==
  IF job.status # "running" \/ ~job.tmuxSession
  THEN [job |-> job, wrote |-> FALSE]
  ELSE IF ~sessionExists(j)
  THEN LET tail == readTranscriptTail(j, readOk) IN
       [job |-> [job EXCEPT !.status = "completed", !.completedAt = now,
                            !.result = IF tail = Null THEN @ ELSE tail],
        wrote |-> TRUE]
  ELSE LET output == capturePane(j, 0, "none", capOk) IN
       IF output # Null /\ Contains(output, Marker)
       THEN LET full == captureFullHistory(j, fullOk) IN
            [job |-> [job EXCEPT !.status = "completed", !.completedAt = now,
                                 !.result = IF full = Null THEN @ ELSE full],
             wrote |-> TRUE]
       ELSE IF output # Null /\ detectErrors(output) # <<>>
       THEN [job |-> [job EXCEPT !.status = "failed", !.completedAt = now,
                                 !.error = <<"Detected: ">>
                                           \o Join(detectErrors(output), ", ")],
             wrote |-> TRUE]
       ELSE [job |-> job, wrote |-> FALSE]

\* A refresher that checks the session of every record, whatever its status.
refreshJobStatusAnyStatus(j, capOk, fullOk, readOk) ==
  LET job == loadJob(j) IN
  IF ~sessionExists(j)
  THEN LET tail == readTranscriptTail(j, readOk) IN
       [job |-> [job EXCEPT !.status = "completed", !.completedAt = now,
                            !.result = IF tail = Null THEN @ ELSE tail],
        wrote |-> TRUE]
  ELSE [job |-> job, wrote |-> FALSE]

\* refreshJobStatus(jobId): the record is loaded, checked and, when its
\* status changes, saved.
refreshJobStatus(j, capOk, fullOk, readOk) ==
  refreshLoaded(loadJob(j), j, capOk, fullOk, readOk)

\* Which of the three environment answers a refresh of j consults.
ConsultsRead(j) ==
  jobs[j].status = "running" /\ jobs[j].tmuxSession /\ ~SessionUp(j)

ConsultsCapture(j) ==
  jobs[j].status = "running" /\ jobs[j].tmuxSession /\ SessionUp(j)

ConsultsFull(j, capOk) ==
  ConsultsCapture(j) /\ capOk /\ Contains(VisiblePane(j), Marker)

\* ------------------------------------------------------------------- kill
\* The record killJob saves for the record it loaded.
cancelled(job) ==
  [job EXCEPT !.status = "cancelled", !.error = CancelledByUser,
              !.completedAt = now]

\* killJob(jobId) on an existing record: the session is killed if the record
\* names one, then the record is marked cancelled and the claims released.
killJob(j) == cancelled(loadJob(j))

\* ---------------------------------------------------------------- cleanup
IsOld(job, maxAgeDays) ==
  job.completedAt # NoTime /\ job.completedAt < now - maxAgeDays

\* A sweep that forgets the cancelled status.
cleanupOldJobsNoCancelled(maxAgeDays) ==
  {j \in listJobs : /\ jobs[j].status \in {"completed", "failed"}
                    /\ IsOld(jobs[j], maxAgeDays)}

\* cleanupOldJobs(maxAgeDays): the set of records it deletes.
cleanupOldJobs(maxAgeDays) ==
  {j \in listJobs : /\ jobs[j].status \in TerminalStatuses
                    /\ IsOld(jobs[j], maxAgeDays)}

\* ------------------------------------------------------------------ start
\* createSession, by outcome: "ok"; "noSession" (validation or new-session
\* failed); "orphan" (a step after new-session failed: the catch block
\* returns success=false and leaves the spawned session alone).
createSession(outcome) == outcome = "ok"

SessAfterCreate(j, outcome) ==
  IF outcome = "noSession" THEN sess
  ELSE [sess EXCEPT ![j] = [phase |-> "agent", lines |-> <<>>]]

RECURSIVE addClaims(_, _, _)
addClaims(store, j, patterns) ==
  IF patterns = <<>> THEN store
  ELSE addClaims(addClaim(store, j, Head(patterns)), j, Tail(patterns))

\* ------------------------------------------------------ operation history
NoOp ==
  [op |-> "none", id |-> 0, pre |-> NoJob, capOk |-> FALSE, fullOk |-> FALSE,
   readOk |-> FALSE, killOk |-> FALSE, ret |-> FALSE, wrote |-> FALSE,
   age |-> 0, count |-> 0]

Op(name, j, pre) == [NoOp EXCEPT !.op = name, !.id = j, !.pre = pre]

RECURSIVE LinesUpTo(_)
LinesUpTo(j) == IF j = 0 THEN 0 ELSE Len(sess[j].lines) + LinesUpTo(j - 1)

TotalLines == LinesUpTo(Cardinality(JobIds))

\* ------------------------------------------------------------------- Init
\* ------------------------------------------------------------ identifiers
\* Representatives of the character classes a typed id can hold: [0-9a-f],
\* upper-case hexadecimal, another letter, the path separator and the dot.
LowerHex == {"0", "9", "a", "f"}
UpperHex == {"A", "F"}
OtherChars == {"g", "/", "."}
Chars == LowerHex \cup UpperHex \cup OtherChars

\* The character the typed ids are mostly made of.
PlainChar == "a"

\* tmux.ts validateJobId: /^[0-9a-f]{1,16}$/.
MaxHexLen == 16

validateJobId(jobId) ==
  /\ Len(jobId) >= 1
  /\ Len(jobId) <= MaxHexLen
  /\ \A i \in 1..Len(jobId) : jobId[i] \in LowerHex

Raised == <<"<throw>">>
NotAsked == <<"<none>">>

\* config.tmuxPrefix.
tmuxPrefix == "codex-agent"

getSessionName(jobId) ==
  IF ~validateJobId(jobId) THEN Raised
  ELSE <<tmuxPrefix, "-">> \o jobId

IdIdle ==
  /\ idText = <<>>
  /\ sessionName = NotAsked

\* ------------------------------------------------------- the jobs directory
\* A well-formed id, and one that climbs out of the jobs directory.
GoodId == <<"f", "0", "0", "f", "f", "0", "0", "f">>
OtherId == <<"a", "0", "a", "0", "a", "0", "a", "0">>
BadId == <<".", ".", "/", "a">>
StoreIds == {GoodId, OtherId, BadId}

\* <id>.json, <id>.prompt, <id>.log.
Exts == {"json", "prompt", "log"}

Absent == <<"<absent>">>
Undefined == "<undefined>"

\* The optional fields of a job record, in the order they are written.
JobFields == <<"status", "tmuxSession", "result">>

\* null, among job records.
NullRecord ==
  [id |-> <<"<null>">>, status |-> Undefined, tmuxSession |-> Undefined,
   result |-> Undefined]

\* JSON.stringify: the fields that are defined, as key/value pairs.
RECURSIVE stringifyFrom(_, _)
stringifyFrom(job, i) ==
  IF i > Len(JobFields) THEN <<>>
  ELSE IF job[JobFields[i]] = Undefined THEN stringifyFrom(job, i + 1)
  ELSE <<<<JobFields[i], job[JobFields[i]]>>>> \o stringifyFrom(job, i + 1)

stringify(job) == <<<<"id", job.id>>>> \o stringifyFrom(job, 1)

\* JSON.parse: a field that is not in the text is undefined.
parse(text) ==
  LET ValueOf(key) ==
        IF \E i \in 1..Len(text) : text[i][1] = key
        THEN text[CHOOSE i \in 1..Len(text) : text[i][1] = key][2]
        ELSE Undefined
  IN [id |-> ValueOf("id"), status |-> ValueOf("status"),
      tmuxSession |-> ValueOf("tmuxSession"), result |-> ValueOf("result")]

\* The content of the file at a path, Absent when there is none.
fileAt(d, p) == IF p \in DOMAIN d THEN d[p] ELSE Absent

\* The file at a path created or rewritten as a whole.
writeFile(d, p, content) ==
  [q \in DOMAIN d \cup {p} |-> IF q = p THEN content ELSE d[q]]

\* Every file of an id removed.
unlinkFiles(d, id) == [p \in {q \in DOMAIN d : q[1] # id} |-> d[p]]

\* A saveJob that writes the given fields over the stored ones.
saveJobFileMerging(d, job) ==
  LET old == IF fileAt(d, <<job.id, "json">>) = Absent
             THEN [NullRecord EXCEPT !.id = job.id]
             ELSE parse(d[<<job.id, "json">>])
      merged == [f \in DOMAIN job |-> IF job[f] = Undefined THEN old[f] ELSE job[f]]
  IN writeFile(d, <<job.id, "json">>, stringify(merged))

\* saveJob(job): the record file rewritten as a whole.
saveJobFile(d, job) == writeFile(d, <<job.id, "json">>, stringify(job))

\* loadJob(id): null when there is no record file.
loadJobFile(d, id) ==
  IF fileAt(d, <<id, "json">>) = Absent THEN NullRecord
  ELSE parse(d[<<id, "json">>])

\* A deleteJob that does not validate the id it is given.
deleteJobFilesUnchecked(d, id) ==
  IF fileAt(d, <<id, "json">>) = Absent THEN [ret |-> "false", disk |-> d]
  ELSE [ret |-> "true", disk |-> unlinkFiles(d, id)]

\* deleteJob(id): the id is validated first; then the record file and with it
\* the prompt and transcript files are removed.
deleteJobFiles(d, id) ==
  IF ~validateJobId(id) THEN [ret |-> "throw", disk |-> d]
  ELSE IF fileAt(d, <<id, "json">>) = Absent THEN [ret |-> "false", disk |-> d]
  ELSE [ret |-> "true", disk |-> unlinkFiles(d, id)]

\* refreshJobStatus(id) on a job that is not running: the record as loaded,
\* null when there is none.
refreshJobFile(d, id) == loadJobFile(d, id)

NoCall ==
  [op |-> "none", id |-> <<>>, ret |-> "none", job |-> NullRecord,
   loaded |-> NullRecord, had |-> {}]

\* No file written yet.
EmptyDir == [p \in {} |-> Absent]

StoreIdle ==
  /\ disk = EmptyDir
  /\ storeRet = NoCall

\* ----------------------------------------------- session adapter, call by call
NoText == "<none>"

\* One external effect of an adapter call: a tmux command or a file operation,
\* what it was aimed at, the text it carried, and whether it succeeded.
Eff(tool, cmd, target, text, ok) ==
  [tool |-> tool, cmd |-> cmd, target |-> target, text |-> text, ok |-> ok]

\* runTmux(args): throws when tmux exits non-zero.
runTmux(cmd, target, ok) ==
  [threw |-> ~ok, cmds |-> <<Eff("tmux", cmd, target, NoText, ok)>>]

\* sessionExists as a command: tmux has-session, exit status 0 or not.
hasSession(exists) == Eff("tmux", "has-session", "session", NoText, exists)

\* Representatives of the characters a model string can hold.
ModelChars == {"a", "Z", "5", ".", "_", ":", "-"}
UnsafeChars == {";", " ", "/"}

\* An assertSafeModel that lets every model through.
assertSafeModelAny(model) == TRUE

\* assertSafeModel: /^[a-zA-Z0-9._:-]+$/; FALSE stands for the throw.
assertSafeModel(model) ==
  /\ Len(model) >= 1
  /\ \A i \in 1..Len(model) : model[i] \in ModelChars

\* A safeSendText that types the text with send-keys.
safeSendTextKeys(text, failAt) ==
  [threw |-> failAt # 0,
   cmds |-> <<Eff("tmux", "send-keys", "session", text, failAt = 0)>>]

\* safeSendText(sessionName, text): the text goes to a temporary file, then
\* load-buffer, then paste-buffer; the file is unlinked whatever happened.
\* failAt names the step that throws (0: none).
safeSendText(text, failAt) ==
  LET write == <<Eff("fs", "write", "tmpFile", text, failAt # 1)>>
      load == <<Eff("tmux", "load-buffer", "tmpFile", NoText, failAt # 2)>>
      paste == <<Eff("tmux", "paste-buffer", "session", NoText, failAt # 3)>>
      unlink == <<Eff("fs", "unlink", "tmpFile", NoText, failAt # 1)>>
  IN [threw |-> failAt \in 1..3,
      cmds |-> IF failAt = 1 THEN write \o unlink
               ELSE IF failAt = 2 THEN write \o load \o unlink
               ELSE write \o load \o paste \o unlink]

\* What an adapter call gives back: a value, or an exception.
Returned(value, made) == [raised |-> FALSE, value |-> value, cmds |-> made]
Thrown(made) == [raised |-> TRUE, value |-> "none", cmds |-> made]

\* sendMessage: failAt 1..3 is a step of safeSendText, 4 the Enter keystroke.
sendMessageCall(exists, text, failAt) ==
  IF ~exists THEN Returned("false", <<hasSession(FALSE)>>)
  ELSE LET sent == safeSendText(text, failAt)
           enter == runTmux("send-keys", "Enter", failAt # 4)
       IN IF sent.threw THEN Returned("false", <<hasSession(TRUE)>> \o sent.cmds)
          ELSE IF enter.threw
          THEN Returned("false", <<hasSession(TRUE)>> \o sent.cmds \o enter.cmds)
          ELSE Returned("true", <<hasSession(TRUE)>> \o sent.cmds \o enter.cmds)

\* An allow-list that also has the Tab key.
AllowedKeysWithTab == {"C-c", "C-z", "Enter", "Escape", "Tab"}

ALLOWED_CONTROL_KEYS == {"C-c", "C-z", "Enter", "Escape"}

sendControl(exists, key, ok) ==
  IF key \notin ALLOWED_CONTROL_KEYS THEN Returned("false", <<>>)
  ELSE IF ~exists THEN Returned("false", <<hasSession(FALSE)>>)
  ELSE LET sent == runTmux("send-keys", key, ok)
       IN IF sent.threw THEN Returned("false", <<hasSession(TRUE)>> \o sent.cmds)
          ELSE Returned("true", <<hasSession(TRUE)>> \o sent.cmds)

\* A killSession without its try/catch.
killSessionCallNoCatch(exists, ok) ==
  IF ~exists THEN Returned("false", <<hasSession(FALSE)>>)
  ELSE LET killed == runTmux("kill-session", "session", ok)
       IN IF killed.threw THEN Thrown(<<hasSession(TRUE)>> \o killed.cmds)
          ELSE Returned("true", <<hasSession(TRUE)>> \o killed.cmds)

killSessionCall(exists, ok) ==
  IF ~exists THEN Returned("false", <<hasSession(FALSE)>>)
  ELSE LET killed == runTmux("kill-session", "session", ok)
       IN IF killed.threw THEN Returned("false", <<hasSession(TRUE)>> \o killed.cmds)
          ELSE Returned("true", <<hasSession(TRUE)>> \o killed.cmds)

\* capturePane and captureFullHistory: the pane text, or null.
capturePaneCall(exists, ok) ==
  IF ~exists THEN Returned("null", <<hasSession(FALSE)>>)
  ELSE LET got == runTmux("capture-pane", "session", ok)
       IN IF got.threw THEN Returned("null", <<hasSession(TRUE)>> \o got.cmds)
          ELSE Returned("text", <<hasSession(TRUE)>> \o got.cmds)

captureFullHistoryCall(exists, ok) ==
  IF ~exists THEN Returned("null", <<hasSession(FALSE)>>)
  ELSE LET got == runTmux("capture-pane -S -", "session", ok)
       IN IF got.threw THEN Returned("null", <<hasSession(TRUE)>> \o got.cmds)
          ELSE Returned("text", <<hasSession(TRUE)>> \o got.cmds)

\* listSessions: the parsed lines of list-sessions, or the empty list.
listSessions(ok) ==
  LET got == runTmux("list-sessions", "server", ok)
  IN IF got.threw THEN Returned("empty", got.cmds)
     ELSE Returned("list", got.cmds)

\* What spawnSync("pgrep", ["-P", pid]) can do: print children, print
\* nothing, fail to start (result.error, no stdout), or throw.
PgrepOutcomes == {"children", "nothing", "error", "throws"}

\* heartbeat(sessionName): the root pid comes from list-panes, process.kill
\* (pid, 0) tells whether it lives, pgrep whether it has children.
heartbeat(exists, listOk, pidStr, rootLive, pgrep) ==
  IF ~exists THEN Returned("dead", <<hasSession(FALSE)>>)
  ELSE LET panes == runTmux("list-panes", "session", listOk)
           made == <<hasSession(TRUE)>> \o panes.cmds
       IN IF panes.threw THEN Returned("dead", made)
          ELSE IF pidStr = "" THEN Returned("dead", made)
          ELSE IF ~rootLive THEN Returned("dead", made)
          ELSE IF pgrep = "throws" THEN Returned("alive", made)
          ELSE IF pgrep = "children" THEN Returned("alive", made)
          ELSE Returned("dead", made)

\* config.tmuxPollIntervalMs and config.tmuxPollTimeoutMs.
tmuxPollIntervalMs == 100
tmuxPollTimeoutMs == 10000

NoReq ==
  [op |-> "none", jobId |-> <<>>, model |-> <<>>, text |-> NoText,
   key |-> NoText, exists |-> FALSE, rootLive |-> FALSE, pgrep |-> "nothing"]

NoRet == [op |-> "none", raised |-> FALSE, value |-> "none", error |-> <<>>]

NoWait == [elapsed |-> 0, polls |-> 0]

AdapterIdle ==
  /\ pc = "idle"
  /\ req = NoReq
  /\ cmds = <<>>
  /\ world = [session |-> FALSE, promptFile |-> FALSE]
  /\ wait = NoWait
  /\ waits = <<>>
  /\ ret = NoRet

\* ------------------------------------------------------ the claim store file
\* The claim store as JSON text, token by token: the opening of the document,
\* one token per claim record, the closing.
NoClaim == [jobId |-> 0, pattern |-> <<>>, claimedAt |-> NoTime]

Tok(kind, claim) == [kind |-> kind, claim |-> claim]

\* JSON.stringify(data, null, 2).
stringifyClaims(data) ==
  <<Tok("{", NoClaim)>> \o [i \in 1..Len(data) |-> Tok("claim", data[i])]
    \o <<Tok("}", NoClaim)>>

\* Whether JSON.parse accepts the text: one whole document and nothing else.
parses(text) ==
  /\ Len(text) >= 2
  /\ text[1].kind = "{"
  /\ text[Len(text)].kind = "}"
  /\ \A i \in 2..(Len(text) - 1) : text[i].kind = "claim"

\* loadClaims(): the list in the file; the empty list when the file is
\* missing or JSON.parse throws.
loadClaimsFrom(text) ==
  IF parses(text) THEN [i \in 1..(Len(text) - 2) |-> text[i + 1].claim]
  ELSE <<>>

\* writeFileSync, first half: the file opened with flag 'w', which creates it
\* or cuts it to length zero.
openTruncate(text) == <<>>

\* writeFileSync, second half: the text written from position 0 on; what lay
\* beyond its end stays.
writeFromStart(text, new) ==
  IF Len(text) <= Len(new) THEN new
  ELSE new \o SubSeq(text, Len(new) + 1, Len(text))

\* A cleanStaleClaims that keeps the claims of the jobs that are gone.
cleanStaleClaimsInverted(data, activeJobIds) ==
  LET Keep(c) == c.jobId \notin activeJobIds
      kept == SelectSeq(data, Keep)
  IN [claims |-> kept, removed |-> Len(data) - Len(kept)]

\* cleanStaleClaims(activeJobIds), between its load and its save.
cleanStaleClaims(data, activeJobIds) ==
  LET Keep(c) == c.jobId \in activeJobIds
      kept == SelectSeq(data, Keep)
  IN [claims |-> kept, removed |-> Len(data) - Len(kept)]

\* s.startsWith(t).
startsWith(s, t) == Len(t) <= Len(s) /\ SubSeq(s, 1, Len(t)) = t

\* s.replace(/c.*$/, "") for a character c: cut at its first occurrence.
\* Patterns are single lines.
stripFrom(s, c) ==
  LET hits == {i \in 1..Len(s) : s[i] = c} IN
  IF hits = {} THEN s
  ELSE SubSeq(s, 1, (CHOOSE i \in hits : \A k \in hits : i <= k) - 1)

\* A patternsOverlap that tests the prefix in one direction only.
patternsOverlapOneWay(a, b) ==
  LET prefixA == stripFrom(stripFrom(a, "*"), "{")
      prefixB == stripFrom(stripFrom(b, "*"), "{")
  IN startsWith(prefixA, prefixB) \/ a = b

patternsOverlap(a, b) ==
  LET prefixA == stripFrom(stripFrom(a, "*"), "{")
      prefixB == stripFrom(stripFrom(b, "*"), "{")
  IN \/ startsWith(prefixA, prefixB) \/ startsWith(prefixB, prefixA)
     \/ a = b

\* A checkOverlaps that does not skip the asking job's own claims.
checkOverlapsOwn(data, jobId, pattern) ==
  LET Hit(claim) == patternsOverlap(pattern, claim.pattern)
  IN SelectSeq(data, Hit)

\* checkOverlaps(jobId, pattern), after its load.
checkOverlaps(data, jobId, pattern) ==
  LET Hit(claim) == claim.jobId # jobId /\ patternsOverlap(pattern, claim.pattern)
  IN SelectSeq(data, Hit)

\* A coordinator that has made no call.
IdleCoord ==
  [pc |-> "idle", op |-> "none", jobId |-> 0, pattern |-> <<>>,
   active |-> {}, pre |-> <<>>, data |-> <<>>, ret |-> <<>>, count |-> 0,
   among |-> {}]

\* No claim store file yet, no coordinator running.
ClaimIdle ==
  /\ claimsFile = <<>>
  /\ coord = <<>>
  /\ versions = {<<>>}
  /\ ledger = <<>>

\* ------------------------------------------------------------ text functions
NL == "\n"

\* s.split("\n").
RECURSIVE split(_)
split(s) ==
  LET hits == {i \in 1..Len(s) : s[i] = NL} IN
  IF hits = {} THEN <<s>>
  ELSE LET i == CHOOSE h \in hits : \A k \in hits : h <= k
       IN <<SubSeq(s, 1, i - 1)>> \o split(SubSeq(s, i + 1, Len(s)))

\* lines.join("\n").
RECURSIVE join(_)
join(lines) ==
  IF Len(lines) = 0 THEN <<>>
  ELSE IF Len(lines) = 1 THEN lines[1]
  ELSE lines[1] \o <<NL>> \o join(Tail(lines))

\* lines.slice(-n), lines.slice(0, n), lines.slice(n), for 0 < n <= length.
sliceLast(lines, n) == SubSeq(lines, Len(lines) - n + 1, Len(lines))
sliceFirst(lines, n) == SubSeq(lines, 1, n)
sliceFrom(lines, n) == SubSeq(lines, n + 1, Len(lines))

\* The loop of incrementalDiff, from the given overlap downwards.
RECURSIVE overlapLoop(_, _, _, _)
overlapLoop(prevLines, currLines, overlap, curr) ==
  IF overlap <= 0 THEN curr
  ELSE IF join(sliceLast(prevLines, overlap)) = join(sliceFirst(currLines, overlap))
  THEN join(sliceFrom(currLines, overlap))
  ELSE overlapLoop(prevLines, currLines, overlap - 1, curr)

\* An incrementalDiff without the test for an empty prev.
incrementalDiffNoGuard(prev, curr) ==
  LET prevLines == split(prev)
      currLines == split(curr)
      maxOverlap == IF Len(prevLines) <= Len(currLines) THEN Len(prevLines)
                    ELSE Len(currLines)
  IN overlapLoop(prevLines, currLines, maxOverlap, curr)

\* An incrementalDiff that tries overlaps one line shorter than it may.
incrementalDiffShort(prev, curr) ==
  IF prev = <<>> THEN curr
  ELSE LET prevLines == split(prev)
           currLines == split(curr)
           maxOverlap == IF Len(prevLines) <= Len(currLines) THEN Len(prevLines)
                         ELSE Len(currLines)
       IN overlapLoop(prevLines, currLines, maxOverlap - 1, curr)

incrementalDiff(prev, curr) ==
  IF prev = <<>> THEN curr
  ELSE LET prevLines == split(prev)
           currLines == split(curr)
           maxOverlap == IF Len(prevLines) <= Len(currLines) THEN Len(prevLines)
                         ELSE Len(currLines)
       IN overlapLoop(prevLines, currLines, maxOverlap, curr)

\* ------------------------------------------------------ transcript parser
\* A line of the raw transcript that warns of a deprecated call.
WarnLine == "warning: deprecated API call"

\* detectIssues(rawLogText): the error and warning signatures of the raw
\* transcript, each reported once.
detectIssues(raw) ==
  [errors |-> detectErrors(raw),
   warnings |-> IF Contains(raw, WarnLine) THEN <<"Deprecation warning">>
                ELSE <<>>]

\* The markers of a patch body.  A body line is its marker (or whatever else
\* it begins with) followed by the rest of the line.
AddMark == "*** Add File: "
UpdateMark == "*** Update File: "
DeleteMark == "*** Delete File: "

\* A record of the structured event log, by its discriminant.
TokenCount(input, output, window) ==
  [type |-> "token_count", input |-> input, output |-> output,
   window |-> window, message |-> "", body |-> <<>>]

AgentMessage(text) ==
  [type |-> "agent_message", input |-> 0, output |-> 0, window |-> 0,
   message |-> text, body |-> <<>>]

ApplyPatch(body) ==
  [type |-> "apply_patch", input |-> 0, output |-> 0, window |-> 0,
   message |-> "", body |-> body]

\* A rounding that drops the fraction.
roundFloor(num, den) == num \div den

\* Math.round(num / den) for num >= 0 and den > 0: halves go up.
round(num, den) == (2 * num + den) \div (2 * den)

\* The tally of a token-count record.  The context in use is the input side
\* of the total usage: input 100, output 40 and window 2000 give 5.
tokensOf(rec) ==
  [input |-> rec.input, output |-> rec.output, context_window |-> rec.window,
   context_used_pct |-> round(100 * rec.input, rec.window)]

\* A list that takes every path it is given, listed already or not.
appendUniqueAlways(list, path) == Append(list, path)

\* list.includes(path) ? list : [...list, path].
appendUnique(list, path) ==
  IF Contains(list, path) THEN list ELSE Append(list, path)

EmptyStats ==
  [files_added |-> <<>>, files_updated |-> <<>>, files_deleted |-> <<>>]

\* One line of a patch body.
parsePatchLine(stats, line) ==
  IF line[1] = AddMark
  THEN [stats EXCEPT !.files_added = appendUnique(@, line[2])]
  ELSE IF line[1] = UpdateMark
  THEN [stats EXCEPT !.files_updated = appendUnique(@, line[2])]
  ELSE IF line[1] = DeleteMark
  THEN [stats EXCEPT !.files_deleted = appendUnique(@, line[2])]
  ELSE stats

RECURSIVE parsePatch(_, _)
parsePatch(stats, body) ==
  IF body = <<>> THEN stats
  ELSE parsePatch(parsePatchLine(stats, Head(body)), Tail(body))

\* Nothing parsed yet: no tokens (null), no summary (null), empty lists.
EmptyParsed == [tokens |-> <<>>, summary |-> Null, diff_stats |-> EmptyStats]

\* One record of the structured log.
parseRecord(parsed, rec) ==
  IF rec.type = "token_count"
  THEN [parsed EXCEPT !.tokens = <<tokensOf(rec)>>]
  ELSE IF rec.type = "agent_message"
  THEN [parsed EXCEPT !.summary = <<rec.message>>]
  ELSE IF rec.type = "apply_patch"
  THEN [parsed EXCEPT !.diff_stats = parsePatch(@, rec.body)]
  ELSE parsed

RECURSIVE parseFrom(_, _)
parseFrom(parsed, records) ==
  IF records = <<>> THEN parsed
  ELSE parseFrom(parseRecord(parsed, Head(records)), Tail(records))

\* parseJsonlSession(content): the records are read in order.
parseJsonlSession(records) == parseFrom(EmptyParsed, records)

\* No structured log was found for the transcript (sessionFilePath is null).
NoSessionFile == [found |-> FALSE, records |-> <<>>]

SessionFile(records) == [found |-> TRUE, records |-> records]

parseSessionFile(file) ==
  IF file.found THEN parseJsonlSession(file.records) ELSE EmptyParsed

\* A report that also lists the error lines of the structured log's messages.
generateSessionReportMixed(file, raw) ==
  LET parsed == parseSessionFile(file)
      issues == detectIssues(raw \o IF parsed.summary = Null THEN <<>>
                                    ELSE parsed.summary)
  IN [tokens |-> parsed.tokens, diff_stats |-> parsed.diff_stats,
      summary |-> parsed.summary, errors |-> issues.errors,
      warnings |-> issues.warnings]

\* generateSessionReport(sessionFilePath, rawLogText).
generateSessionReport(file, raw) ==
  LET parsed == parseSessionFile(file)
      issues == detectIssues(raw)
  IN [tokens |-> parsed.tokens, diff_stats |-> parsed.diff_stats,
      summary |-> parsed.summary, errors |-> issues.errors,
      warnings |-> issues.warnings]

\* No text function called.
NoResult == <<"<none>">>

CallIdle == call = [fn |-> "none", a |-> <<>>, b |-> <<>>, ret |-> NoResult]

\* No loop or command in progress.
CliIdle == cli = <<>>

OthersIdle == IdIdle /\ StoreIdle /\ AdapterIdle /\ ClaimIdle /\ CallIdle /\ CliIdle

RegistryInit(n) ==
  /\ jobs = [j \in 1..n |-> NoJob]
  /\ claims = <<>>
  /\ sess = [j \in 1..n |-> [phase |-> "none", lines |-> <<>>]]
  /\ nextId = 1
  /\ starting = [j \in 1..n |-> NoTime]
  /\ now = 0
  /\ last = NoOp

InitWith(n) == OthersIdle /\ RegistryInit(n)

Init == InitWith(MaxJobs)

\* ---------------------------------------------------------------- actions
\* startJob, first half: a fresh id, the pending record saved.
StartJobBegin ==
  /\ nextId \in JobIds
  /\ jobs' = saveJob(jobs, nextId,
                     [NoJob EXCEPT !.status = "pending", !.createdAt = now])
  /\ starting' = [starting EXCEPT ![nextId] = now]
  /\ nextId' = nextId + 1
  /\ last' = NoOp
  /\ UNCHANGED <<claims, sess, now, otherVars>>

\* A startJob that names the session it asked for in the record of a job
\* whose session could not be created.
failedAtCreationWithHandle(job) ==
  [job EXCEPT !.status = "failed", !.tmuxSession = TRUE,
              !.error = <<"createSession failed">>, !.completedAt = now]

\* startJob when createSession reports failure: the record marked failed.
failedAtCreation(job) ==
  [job EXCEPT !.status = "failed", !.error = <<"createSession failed">>,
              !.completedAt = now]

\* startJob, second half: createSession, then the record saved again as
\* running (with its session handle and claims) or as failed.
StartJobFinish(j) ==
  /\ starting[j] # NoTime
  /\ \E outcome \in {"ok", "noSession", "orphan"}, patterns \in {<<>>, <<"src/**">>} :
       LET job == [NoJob EXCEPT !.status = "pending", !.createdAt = starting[j]] IN
       /\ sess' = SessAfterCreate(j, outcome)
       /\ IF createSession(outcome)
          THEN /\ jobs' = saveJob(jobs, j, [job EXCEPT !.status = "running",
                                                       !.tmuxSession = TRUE])
               /\ claims' = addClaims(loadClaims, j, patterns)
          ELSE /\ jobs' = saveJob(jobs, j, failedAtCreation(job))
               /\ claims' = claims
       /\ last' = NoOp
  /\ starting' = [starting EXCEPT ![j] = NoTime]
  /\ UNCHANGED <<nextId, now, otherVars>>

\* The agent prints a line.
AgentOutput(j) ==
  /\ sess[j].phase = "agent"
  /\ TotalLines < MaxOutput
  /\ \E line \in AgentLines : sess' = [sess EXCEPT ![j].lines = Append(@, line)]
  /\ last' = NoOp
  /\ UNCHANGED <<jobs, claims, nextId, starting, now, otherVars>>

\* The agent exits: the wrapper echoes the marker and waits in `read`.
AgentExit(j) ==
  /\ sess[j].phase = "agent"
  /\ sess' = [sess EXCEPT ![j].phase = "wrapper"]
  /\ last' = NoOp
  /\ UNCHANGED <<jobs, claims, nextId, starting, now, otherVars>>

\* The session goes away without the registry being told.
SessionVanish(j) ==
  /\ SessionUp(j)
  /\ sess' = [sess EXCEPT ![j].phase = "gone"]
  /\ last' = NoOp
  /\ UNCHANGED <<jobs, claims, nextId, starting, now, otherVars>>

Tick ==
  /\ now < MaxTime
  /\ now' = now + 1
  /\ last' = NoOp
  /\ UNCHANGED <<jobs, claims, sess, nextId, starting, otherVars>>

\* refreshJobStatus(jobId), as the status, report and watch commands call it.
RefreshJobStatus(j) ==
  /\ jobs[j].status # "none"
  /\ \E capOk \in (IF ConsultsCapture(j) THEN BOOLEAN ELSE {FALSE}),
     readOk \in (IF ConsultsRead(j) THEN BOOLEAN ELSE {FALSE}) :
      \E fullOk \in (IF ConsultsFull(j, capOk) THEN BOOLEAN ELSE {FALSE}) :
        LET r == refreshJobStatus(j, capOk, fullOk, readOk) IN
        /\ jobs' = IF r.wrote THEN saveJob(jobs, j, r.job) ELSE jobs
        /\ last' = [Op("refresh", j, jobs[j]) EXCEPT
                      !.capOk = capOk, !.fullOk = fullOk, !.readOk = readOk,
                      !.wrote = r.wrote, !.ret = TRUE]
  /\ UNCHANGED <<claims, sess, nextId, starting, now, otherVars>>

\* A dashboard refresh that polls the pending jobs instead of the running ones.
refreshRunningJobsPending(capOks, fullOks, readOks) ==
  [j \in JobIds |->
     IF jobs[j].status = "pending"
     THEN refreshJobStatus(j, j \in capOks, j \in fullOks, j \in readOks).job
     ELSE jobs[j]]

\* One tick of the dashboard loop: refreshJobStatus for every listed job whose
\* status is running; the registry afterwards.
refreshRunningJobs(capOks, fullOks, readOks) ==
  [j \in JobIds |->
     IF jobs[j].status = "running"
     THEN refreshJobStatus(j, j \in capOks, j \in fullOks, j \in readOks).job
     ELSE jobs[j]]

RunDashboardRefresh ==
  /\ \E j \in JobIds : jobs[j].status = "running"
  /\ \E capOks \in SUBSET {j \in JobIds : ConsultsCapture(j)},
     readOks \in SUBSET {j \in JobIds : ConsultsRead(j)} :
      \E fullOks \in SUBSET {j \in capOks : ConsultsFull(j, TRUE)} :
        /\ jobs' = refreshRunningJobs(capOks, fullOks, readOks)
        /\ last' = Op("dashboard", 0, NoJob)
  /\ UNCHANGED <<claims, sess, nextId, starting, now, otherVars>>

\* killJob(jobId).
KillJob(j) ==
  LET job == loadJob(j) IN
  /\ job.status # "none"
  /\ \E killOk \in (IF job.tmuxSession /\ SessionUp(j) THEN BOOLEAN ELSE {FALSE}) :
       /\ sess' = IF job.tmuxSession THEN SessAfterKill(j, killOk) ELSE sess
       /\ jobs' = saveJob(jobs, j, killJob(j))
       /\ claims' = removeClaims(loadClaims, j)
       /\ last' = [Op("kill", j, job) EXCEPT !.killOk = killOk, !.ret = TRUE,
                                             !.wrote = TRUE,
                                             !.count = Cardinality(ClaimsOf(j))]
  /\ UNCHANGED <<nextId, starting, now, otherVars>>

\* sendToJob(jobId, message).  The text matters only when it lands in the pane
\* of a running agent.
SendToJob(j) ==
  LET job == loadJob(j) IN
  /\ sess[j].phase = "agent" => TotalLines < MaxOutput
  /\ job.status # "none" /\ job.tmuxSession
  /\ \E ok \in (IF SessionUp(j) THEN BOOLEAN ELSE {FALSE}) :
       \E line \in (IF ok /\ sess[j].phase = "agent" THEN AgentLines
                     ELSE {PlainLine}) :
         /\ sess' = SessAfterSend(j, line, ok)
         /\ last' = NoOp
  /\ UNCHANGED <<jobs, claims, nextId, starting, now, otherVars>>

\* cleanupOldJobs(maxAgeDays).
CleanupOldJobs ==
  \E maxAgeDays \in 0..MaxAgeDays :
    LET swept == cleanupOldJobs(maxAgeDays) IN
    /\ jobs' = [j \in JobIds |-> IF j \in swept THEN deleteJob(jobs, j)[j] ELSE jobs[j]]
    /\ last' = [Op("cleanup", 0, NoJob) EXCEPT !.age = maxAgeDays,
                                               !.count = Cardinality(swept)]
    /\ UNCHANGED <<claims, sess, nextId, starting, now, otherVars>>

\* deleteJob(jobId) with a valid id.
DeleteJob(j) ==
  /\ jobs[j].status # "none"
  /\ jobs' = deleteJob(jobs, j)
  /\ last' = NoOp
  /\ UNCHANGED <<claims, sess, nextId, starting, now, otherVars>>

\* The registry driven through sessions and their output, on one day.
Next ==
  \/ StartJobBegin
  \/ \E j \in JobIds : StartJobFinish(j)
  \/ \E j \in JobIds : AgentOutput(j)
  \/ \E j \in JobIds : AgentExit(j)
  \/ \E j \in JobIds : SessionVanish(j)
  \/ \E j \in JobIds : RefreshJobStatus(j)
  \/ RunDashboardRefresh
  \/ \E j \in JobIds : KillJob(j)
  \/ \E j \in JobIds : SendToJob(j)
  \/ \E j \in JobIds : DeleteJob(j)

Spec == Init /\ [][Next]_vars

\* The registry over several days, with the retention sweep; sessions print
\* nothing here.
SweepInit == InitWith(SweepJobs)

SweepNext ==
  \/ StartJobBegin
  \/ \E j \in JobIds : StartJobFinish(j)
  \/ \E j \in JobIds : SessionVanish(j)
  \/ Tick
  \/ \E j \in JobIds : RefreshJobStatus(j)
  \/ \E j \in JobIds : KillJob(j)
  \/ CleanupOldJobs
  \/ \E j \in JobIds : DeleteJob(j)

SweepSpec == SweepInit /\ [][SweepNext]_vars

\* ================================================================= claims
WasRefreshOfRunning ==
  /\ last.op = "refresh"
  /\ last.pre.status = "running"
  /\ last.pre.tmuxSession

HasErrorSignature(text) == Contains(text, ErrLine) \/ Contains(text, ExitLine)

\* The error text expected for a captured output, written out case by case.
ExpectedError(text) ==
  IF Contains(text, ErrLine) /\ Contains(text, ExitLine)
  THEN <<"Detected: ", "Error line detected", ", ", "Non-zero process exit">>
  ELSE IF Contains(text, ErrLine)
  THEN <<"Detected: ", "Error line detected">>
  ELSE <<"Detected: ", "Non-zero process exit">>

\* C1: once a record is completed, failed or cancelled, no refreshJobStatus,
\* killJob, send or cleanupOldJobs step changes its status to another value;
\* the record can only disappear.  (Steps of a startJob in progress are left
\* out: the claim does not name them.)
C1_TerminalNeverReverts ==
  [][starting' = starting =>
       \A j \in JobIds :
         jobs[j].status \in TerminalStatuses =>
           jobs'[j].status \in {jobs[j].status, "none"}]_vars

\* C2: after killJob of an existing job the record is cancelled with the
\* error text 'Cancelled by user' and the claim store holds no claim of that
\* job, whatever the session did.
C2_KillAlwaysCancels ==
  last.op = "kill" =>
    /\ jobs[last.id].status = "cancelled"
    /\ jobs[last.id].error = CancelledByUser
    /\ \A i \in 1..Len(claims) : claims[i].jobId # last.id

\* C2 witness: a running job holding a claim was killed, kill-session failed
\* and the session is still there.
C2_Witness ==
  /\ last.op = "kill"
  /\ last.pre.status = "running"
  /\ last.count > 0
  /\ ~last.killOk
  /\ SessionUp(last.id)
  /\ jobs[last.id].status = "cancelled"

\* C3: a refresh of a running job whose session is gone completes it, with the
\* tail of the transcript file as result when the file can be read, and this
\* whatever the session printed last.
C3_VanishedCompletes ==
  (WasRefreshOfRunning /\ ~SessionUp(last.id)) =>
    /\ jobs[last.id].status = "completed"
    /\ jobs[last.id].result =
         IF last.readOk
         THEN LastLines(TranscriptFile(last.id), ResultTailLines)
         ELSE last.pre.result

\* C3 witness: the vanished session had printed an error line and more than
\* the tail holds; the job is completed all the same.
C3_Witness ==
  /\ WasRefreshOfRunning
  /\ ~SessionUp(last.id)
  /\ last.readOk
  /\ Contains(TranscriptFile(last.id), ErrLine)
  /\ Len(TranscriptFile(last.id)) > ResultTailLines
  /\ jobs[last.id].status = "completed"

\* C4: a refresh of a running job whose session exists and whose captured
\* output holds the completion marker completes it, with the full scrollback
\* returned by captureFullHistory as result.
C4_MarkerCompletes ==
  (/\ WasRefreshOfRunning
   /\ SessionUp(last.id)
   /\ last.capOk
   /\ Contains(VisiblePane(last.id), Marker)
   /\ last.fullOk) =>
    /\ jobs[last.id].status = "completed"
    /\ jobs[last.id].result = Scrollback(last.id)

\* C4 witness: the scrollback is longer than the pane shows.
C4_Witness ==
  /\ WasRefreshOfRunning
  /\ SessionUp(last.id)
  /\ last.capOk /\ last.fullOk
  /\ Contains(VisiblePane(last.id), Marker)
  /\ Len(Scrollback(last.id)) > PaneHeight
  /\ jobs[last.id].status = "completed"

\* C5: a refresh of a running job whose session exists and whose captured
\* output matches an error signature and holds no marker fails it, with
\* error 'Detected: ' followed by the joined matches.
C5_ErrorFails ==
  (/\ WasRefreshOfRunning
   /\ SessionUp(last.id)
   /\ last.capOk
   /\ ~Contains(VisiblePane(last.id), Marker)
   /\ HasErrorSignature(VisiblePane(last.id))) =>
    /\ jobs[last.id].status = "failed"
    /\ jobs[last.id].error = ExpectedError(VisiblePane(last.id))

\* C5 witness: two signatures matched and were joined.
C5_Witness ==
  /\ WasRefreshOfRunning
  /\ SessionUp(last.id)
  /\ last.capOk
  /\ Contains(VisiblePane(last.id), ErrLine)
  /\ Contains(VisiblePane(last.id), ExitLine)
  /\ jobs[last.id].status = "failed"

\* C6: the heuristics apply in the order session gone, marker, error
\* signature: a gone session means completed whatever was printed, and output
\* with both the marker and an error signature means completed, not failed.
C6_RefreshOrder ==
  WasRefreshOfRunning =>
    /\ ~SessionUp(last.id) => jobs[last.id].status = "completed"
    /\ (/\ SessionUp(last.id)
        /\ last.capOk
        /\ Contains(VisiblePane(last.id), Marker)
        /\ HasErrorSignature(VisiblePane(last.id)))
         => jobs[last.id].status = "completed"

\* C6 witness: the marker and an error signature were both on the pane.
C6_Witness ==
  /\ WasRefreshOfRunning
  /\ SessionUp(last.id)
  /\ last.capOk
  /\ Contains(VisiblePane(last.id), Marker)
  /\ HasErrorSignature(VisiblePane(last.id))
  /\ jobs[last.id].status = "completed"

\* C7: a refresh of a running job whose session exists and whose output holds
\* neither the marker nor an error signature changes nothing in the record and
\* saves nothing.
C7_NoSignalNoTransition ==
  (/\ WasRefreshOfRunning
   /\ SessionUp(last.id)
   /\ ~Contains(VisiblePane(last.id), Marker)
   /\ ~HasErrorSignature(VisiblePane(last.id))) =>
    /\ jobs[last.id] = last.pre
    /\ ~last.wrote

\* C7 witness: the pane showed plain output only.
C7_Witness ==
  /\ WasRefreshOfRunning
  /\ SessionUp(last.id)
  /\ last.capOk
  /\ Contains(VisiblePane(last.id), PlainLine)
  /\ ~HasErrorSignature(VisiblePane(last.id))
  /\ ~Contains(VisiblePane(last.id), Marker)
  /\ jobs[last.id].status = "running"

\* C8: a refresh of a job that is not running returns the record as it is and
\* saves nothing, whatever its session looks like.
C8_NonRunningUntouched ==
  (last.op = "refresh" /\ last.pre.status # "running") =>
    /\ jobs[last.id] = last.pre
    /\ ~last.wrote

\* C8 witness: a cancelled job whose session is gone was refreshed.
C8_Witness ==
  /\ last.op = "refresh"
  /\ last.pre.status = "cancelled"
  /\ last.pre.tmuxSession
  /\ ~SessionUp(last.id)
  /\ jobs[last.id].status = "cancelled"

\* The registry under a dashboard that keeps polling: sessions come, end and
\* vanish, and the refresh loop of runDashboard is scheduled fairly.
LiveNext ==
  \/ StartJobBegin
  \/ \E j \in JobIds : StartJobFinish(j)
  \/ \E j \in JobIds : AgentExit(j)
  \/ \E j \in JobIds : SessionVanish(j)
  \/ \E j \in JobIds : RefreshJobStatus(j)
  \/ RunDashboardRefresh
  \/ \E j \in JobIds : KillJob(j)
  \/ \E j \in JobIds : DeleteJob(j)

LiveSpec == Init /\ [][LiveNext]_vars /\ WF_vars(RunDashboardRefresh)

Vanished(j) ==
  /\ jobs[j].status = "running"
  /\ jobs[j].tmuxSession
  /\ ~SessionUp(j)

\* C9: a running job whose session has disappeared reaches a terminal status
\* when the refresh is scheduled fairly (unless its record is deleted first),
\* and it does so at the first refresh made after the disappearance, be it a
\* status query or a dashboard tick.
C9_VanishedReachesTerminal ==
  /\ \A j \in 1..MaxJobs :
       (j \in JobIds /\ Vanished(j))
         ~> (jobs[j].status \in TerminalStatuses \cup {"none"})
  /\ [][\A j \in JobIds :
          (/\ Vanished(j)
           /\ \/ last'.op = "dashboard"
              \/ last'.op = "refresh" /\ last'.id = j)
            => jobs'[j].status \in TerminalStatuses]_vars

\* C9 witness: a dashboard tick has just completed a job whose session is gone.
C9_Witness ==
  /\ last.op = "dashboard"
  /\ \E j \in JobIds : /\ jobs[j].status = "completed"
                       /\ jobs[j].tmuxSession
                       /\ ~SessionUp(j)
                       /\ claims # <<>>

\* C10: cleanupOldJobs(maxAgeDays) deletes exactly the completed, failed and
\* cancelled records whose completion is more than maxAgeDays old, leaves every
\* other record as it was (running and pending ones whatever their age), and
\* returns the number of records it deleted.
C10_SweepExact ==
  [][last'.op = "cleanup" =>
       /\ \A j \in JobIds :
            jobs'[j] = IF /\ jobs[j].status \in {"completed", "failed", "cancelled"}
                          /\ now - jobs[j].completedAt > last'.age
                       THEN NoJob
                       ELSE jobs[j]
       /\ \A j \in JobIds :
            jobs[j].status \in {"running", "pending"} => jobs'[j] = jobs[j]
       /\ last'.count =
            Cardinality({j \in JobIds : jobs[j] # NoJob /\ jobs'[j] = NoJob})]_vars

\* C10 witness: a sweep with a threshold of MaxAgeDays deleted a cancelled
\* record.
C10_Witness ==
  /\ last.op = "cleanup"
  /\ last.age = MaxAgeDays
  /\ last.count > 0
  /\ \E j \in JobIds : jobs[j] = NoJob /\ starting[j] = NoTime /\ nextId > j

\* ============================================================ identifiers
OddChars(text) == Cardinality({i \in 1..Len(text) : text[i] # PlainChar})

\* A character is typed at the end of the candidate id.
TypeChar ==
  /\ Len(idText) < MaxIdLen
  /\ \E c \in Chars :
       /\ OddChars(Append(idText, c)) <= MaxOddChars
       /\ idText' = Append(idText, c)
  /\ sessionName' = NotAsked
  /\ UNCHANGED <<besideId>>

\* The candidate id is given up.
ClearId ==
  /\ idText # <<>>
  /\ idText' = <<>>
  /\ sessionName' = NotAsked
  /\ UNCHANGED <<besideId>>

\* getSessionName(jobId) on the candidate id.
GetSessionName ==
  /\ sessionName = NotAsked
  /\ sessionName' = getSessionName(idText)
  /\ UNCHANGED <<idText, besideId>>

IdInit == InitWith(1)

IdNext == TypeChar \/ ClearId \/ GetSessionName

\* Job ids as they reach the session adapter.
IdSpec == IdInit /\ [][IdNext]_vars

\* The length the documentation gives a job id.
IdLen == 8

IsHexChar(c) == c \in LowerHex \cup UpperHex

IsFixedHex(text) ==
  /\ Len(text) = IdLen
  /\ \A i \in 1..Len(text) : IsHexChar(text[i])

\* C13: validateJobId accepts an id exactly when it is a hexadecimal string of
\* 8 characters, and getSessionName raises exactly on the ids it rejects.
C13_FixedLengthHexOnly ==
  /\ validateJobId(idText) <=> IsFixedHex(idText)
  /\ sessionName # NotAsked => (sessionName = Raised <=> ~IsFixedHex(idText))

\* ===================================================== the jobs directory
\* The records callers save.
JobRecords ==
  [id : {GoodId, OtherId}, status : {"pending", "completed"},
   tmuxSession : {Undefined, "codex-agent-1"}, result : {Undefined, "done"}]

FilesOf(id) == {e \in Exts : fileAt(disk, <<id, e>>) # Absent}

\* saveJob(job).
SaveJob ==
  \E job \in JobRecords :
    /\ disk' = saveJobFile(disk, job)
    /\ storeRet' = [NoCall EXCEPT !.op = "save", !.id = job.id, !.job = job,
                                  !.had = FilesOf(job.id)]
    /\ UNCHANGED <<besideStore>>

\* createSession writes the prompt file of a saved job, script(1) its
\* transcript.
WriteArtifact ==
  \E id \in {GoodId, OtherId}, e \in {"prompt", "log"} :
    /\ fileAt(disk, <<id, "json">>) # Absent
    /\ fileAt(disk, <<id, e>>) = Absent
    /\ disk' = writeFile(disk, <<id, e>>, <<"text">>)
    /\ storeRet' = NoCall
    /\ UNCHANGED <<besideStore>>

\* loadJob(id).
LoadJob ==
  \E id \in {GoodId, OtherId} :
    /\ storeRet' = [NoCall EXCEPT !.op = "load", !.id = id,
                                  !.ret = "returned",
                                  !.loaded = loadJobFile(disk, id),
                                  !.had = FilesOf(id)]
    /\ UNCHANGED <<disk, besideStore>>

\* The status command: refreshJobStatus(id).
StatusQuery ==
  \E id \in {GoodId, OtherId} :
    /\ storeRet' = [NoCall EXCEPT !.op = "status", !.id = id,
                                  !.ret = "returned",
                                  !.loaded = refreshJobFile(disk, id),
                                  !.had = FilesOf(id)]
    /\ UNCHANGED <<disk, besideStore>>

\* The delete command: deleteJob(id).
DeleteJobFiles ==
  \E id \in StoreIds :
    LET r == deleteJobFiles(disk, id) IN
    /\ disk' = r.disk
    /\ storeRet' = [NoCall EXCEPT !.op = "delete", !.id = id, !.ret = r.ret,
                                  !.had = FilesOf(id)]
    /\ UNCHANGED <<besideStore>>

\* What lies around before any job is saved: one file next to the jobs
\* directory, where the path of BadId points.
StoreInit ==
  /\ IdIdle /\ AdapterIdle /\ ClaimIdle /\ CallIdle /\ CliIdle /\ RegistryInit(1)
  /\ disk = writeFile(EmptyDir, <<BadId, "json">>, <<<<"id", OtherId>>>>)
  /\ storeRet = NoCall

StoreNext == SaveJob \/ WriteArtifact \/ LoadJob \/ StatusQuery \/ DeleteJobFiles

\* Job records and their files in the jobs directory.
StoreSpec == StoreInit /\ [][StoreNext]_vars

\* C11: deleteJob with a valid id of an existing record removes the record,
\* prompt and transcript files of that id and returns true; with a valid id
\* and no record it returns false and changes nothing; with an invalid id it
\* raises and no file is touched.  Files of other ids are never touched.
C11_DeleteContract ==
  [][storeRet'.op = "delete" =>
       LET id == storeRet'.id IN
       /\ \A p \in StoreIds \X Exts :
            p[1] # id => fileAt(disk', p) = fileAt(disk, p)
       /\ IF ~validateJobId(id)
          THEN storeRet'.ret = "throw" /\ disk' = disk
          ELSE IF fileAt(disk, <<id, "json">>) = Absent
          THEN storeRet'.ret = "false" /\ disk' = disk
          ELSE /\ storeRet'.ret = "true"
               /\ \A e \in Exts : fileAt(disk', <<id, e>>) = Absent]_vars

\* C11 witness: a delete returned true for a job that had all three files, and
\* none of them is left.
C11_Witness ==
  /\ storeRet.op = "delete"
  /\ storeRet.ret = "true"
  /\ storeRet.had = Exts
  /\ FilesOf(storeRet.id) = {}
  /\ fileAt(disk, <<BadId, "json">>) # Absent

\* C12: right after saveJob(job), loadJob(job.id) gives a record equal to job,
\* whatever was stored before; loadJob and refreshJobStatus of an id without a
\* record file give null and raise nothing.
C12_SaveLoadRoundTrip ==
  /\ storeRet.op = "save" => loadJobFile(disk, storeRet.id) = storeRet.job
  /\ (storeRet.op \in {"load", "status"} /\ "json" \notin storeRet.had)
       => storeRet.ret = "returned" /\ storeRet.loaded = NullRecord
  /\ (storeRet.op \in {"load", "status"} /\ "json" \in storeRet.had)
       => storeRet.ret = "returned" /\ storeRet.loaded.id = storeRet.id

\* C12 witness: a record with undefined fields was saved over one that had
\* them defined.
C12_Witness ==
  /\ storeRet.op = "save"
  /\ "json" \in storeRet.had
  /\ storeRet.job.result = Undefined
  /\ storeRet.job.tmuxSession = Undefined
  /\ loadJobFile(disk, storeRet.id) = storeRet.job

\* ======================================================= the session adapter
ModelInputs ==
  {<<"a", "-", "5", ".", "Z">>, <<"a", "_", ":", "5">>,
   <<"a", ";", "Z">>, <<"a", " ", "5">>, <<>>}

Prompts == {"fix the bug", "Enter"}

ControlKeys == {"C-c", "C-z", "Enter", "Escape", "Tab", "C-d"}

WaitSteps == {"wait1", "wait2", "wait3"}

\* What createSession goes on with after each of its waits.
AfterWait(step) ==
  IF step = "wait1" THEN "key3" ELSE IF step = "wait2" THEN "enter" ELSE "deliver"

\* The catch block of createSession: the prompt file is unlinked and
\* success=false is returned with the message of the error.
CatchError(made, message) ==
  /\ cmds' = made \o <<Eff("fs", "unlink", "promptFile", NoText, world.promptFile)>>
  /\ world' = [world EXCEPT !.promptFile = FALSE]
  /\ ret' = [NoRet EXCEPT !.op = "createSession", !.value = "failure",
                          !.error = message]
  /\ pc' = "idle"

\* createSession up to the prompt file: getSessionName (outside the try),
\* assertSafeModel, writeFileSync(promptFile).
CreateSessionBegin ==
  /\ pc = "idle"
  /\ ~world.session
  /\ \E jobId \in {GoodId, BadId}, model \in ModelInputs, prompt \in Prompts,
        writeOk \in BOOLEAN :
       /\ req' = [NoReq EXCEPT !.op = "createSession", !.jobId = jobId,
                               !.model = model, !.text = prompt]
       /\ IF getSessionName(jobId) = Raised
          THEN /\ ret' = [NoRet EXCEPT !.op = "createSession", !.raised = TRUE]
               /\ cmds' = <<>>
               /\ UNCHANGED <<pc, world>>
          ELSE IF ~assertSafeModel(model)
          THEN CatchError(<<>>, <<"Invalid model: ">> \o model)
          ELSE IF ~writeOk
          THEN CatchError(<<Eff("fs", "write", "promptFile", prompt, FALSE)>>,
                          <<"write failed">>)
          ELSE /\ cmds' = <<Eff("fs", "write", "promptFile", prompt, TRUE)>>
               /\ world' = [world EXCEPT !.promptFile = TRUE]
               /\ ret' = NoRet
               /\ pc' = "spawn"
  /\ wait' = NoWait
  /\ waits' = <<>>
  /\ UNCHANGED <<besideAdapter>>

\* tmux new-session -d -s <name> -c <cwd> <shellCmd>.
CreateSessionSpawn ==
  /\ pc = "spawn"
  /\ \E ok \in BOOLEAN :
       LET spawned == runTmux("new-session", "shellCmd", ok) IN
       IF spawned.threw
       THEN CatchError(cmds \o spawned.cmds, <<"tmux new-session failed">>)
       ELSE /\ cmds' = cmds \o spawned.cmds
            /\ world' = [world EXCEPT !.session = TRUE]
            /\ pc' = "wait1"
            /\ ret' = ret
  /\ UNCHANGED <<req, wait, waits, besideAdapter>>

\* A waitForPaneContent loop that still polls when the deadline is reached.
waitForPaneContentLate(w, shown) ==
  IF ~(w.elapsed <= tmuxPollTimeoutMs)
  THEN [done |-> TRUE, value |-> FALSE, wait |-> w]
  ELSE IF shown THEN [done |-> TRUE, value |-> TRUE,
                 wait |-> [w EXCEPT !.polls = @ + 1]]
  ELSE [done |-> FALSE, value |-> FALSE,
        wait |-> [elapsed |-> w.elapsed + tmuxPollIntervalMs,
                  polls |-> w.polls + 1]]

\* One turn of the loop of waitForPaneContent: past the deadline it returns
\* false; otherwise it captures the pane, returns true when there is content
\* and sleeps for the poll interval when there is none.
waitForPaneContent(w, shown) ==
  IF ~(w.elapsed < tmuxPollTimeoutMs)
  THEN [done |-> TRUE, value |-> FALSE, wait |-> w]
  ELSE IF shown THEN [done |-> TRUE, value |-> TRUE,
                      wait |-> [w EXCEPT !.polls = @ + 1]]
  ELSE [done |-> FALSE, value |-> FALSE,
        wait |-> [elapsed |-> w.elapsed + tmuxPollIntervalMs,
                  polls |-> w.polls + 1]]

WaitPoll ==
  /\ pc \in WaitSteps
  /\ \E shown \in BOOLEAN :
       LET turn == waitForPaneContent(wait, shown) IN
       IF turn.done
       THEN /\ waits' = Append(waits, turn.value)
            /\ wait' = NoWait
            /\ pc' = AfterWait(pc)
       ELSE /\ wait' = turn.wait
            /\ UNCHANGED <<waits, pc>>
  /\ UNCHANGED <<req, cmds, world, ret, besideAdapter>>

\* send-keys "3": the update prompt is skipped.
SendKey3 ==
  /\ pc = "key3"
  /\ \E ok \in BOOLEAN :
       LET sent == runTmux("send-keys", "3", ok) IN
       IF sent.threw
       THEN CatchError(cmds \o sent.cmds, <<"tmux send-keys failed">>)
       ELSE /\ cmds' = cmds \o sent.cmds
            /\ pc' = "wait2"
            /\ UNCHANGED <<world, ret>>
  /\ UNCHANGED <<req, wait, waits, besideAdapter>>

\* send-keys Enter: remaining prompts are dismissed.
SendKeyEnter ==
  /\ pc = "enter"
  /\ \E ok \in BOOLEAN :
       LET sent == runTmux("send-keys", "Enter", ok) IN
       IF sent.threw
       THEN CatchError(cmds \o sent.cmds, <<"tmux send-keys failed">>)
       ELSE /\ cmds' = cmds \o sent.cmds
            /\ pc' = "wait3"
            /\ UNCHANGED <<world, ret>>
  /\ UNCHANGED <<req, wait, waits, besideAdapter>>

\* safeSendText(sessionName, options.prompt).
DeliverPrompt ==
  /\ pc = "deliver"
  /\ \E failAt \in 0..3 :
       LET sent == safeSendText(req.text, failAt) IN
       IF sent.threw
       THEN CatchError(cmds \o sent.cmds, <<"delivery failed">>)
       ELSE /\ cmds' = cmds \o sent.cmds
            /\ pc' = "submit"
            /\ UNCHANGED <<world, ret>>
  /\ UNCHANGED <<req, wait, waits, besideAdapter>>

\* send-keys Enter: the prompt is submitted, createSession returns.
SubmitPrompt ==
  /\ pc = "submit"
  /\ \E ok \in BOOLEAN :
       LET sent == runTmux("send-keys", "Enter", ok) IN
       IF sent.threw
       THEN CatchError(cmds \o sent.cmds, <<"tmux send-keys failed">>)
       ELSE /\ cmds' = cmds \o sent.cmds
            /\ pc' = "idle"
            /\ ret' = [NoRet EXCEPT !.op = "createSession", !.value = "success"]
            /\ world' = world
  /\ UNCHANGED <<req, wait, waits, besideAdapter>>

\* A call that is over in one step: what it met, made and returned.
Called(op, asked, result) ==
  /\ req' = [asked EXCEPT !.op = op, !.exists = world.session]
  /\ cmds' = result.cmds
  /\ ret' = [NoRet EXCEPT !.op = op, !.raised = result.raised,
                          !.value = result.value]
  /\ UNCHANGED <<pc, wait, waits, besideAdapter>>

SendMessage ==
  /\ pc = "idle"
  /\ \E text \in Prompts, failAt \in 0..4 :
       /\ Called("sendMessage", [NoReq EXCEPT !.text = text],
                 sendMessageCall(world.session, text, failAt))
       /\ world' = world

SendControl ==
  /\ pc = "idle"
  /\ \E key \in ControlKeys, ok \in BOOLEAN :
       /\ Called("sendControl", [NoReq EXCEPT !.key = key],
                 sendControl(world.session, key, ok))
       /\ world' = world

KillSession ==
  /\ pc = "idle"
  /\ \E ok \in BOOLEAN :
       LET result == killSessionCall(world.session, ok) IN
       /\ Called("killSession", NoReq, result)
       /\ world' = IF result.value = "true"
                   THEN [world EXCEPT !.session = FALSE] ELSE world

CapturePane ==
  /\ pc = "idle"
  /\ \E ok \in BOOLEAN :
       /\ Called("capturePane", NoReq, capturePaneCall(world.session, ok))
       /\ world' = world

CaptureFullHistory ==
  /\ pc = "idle"
  /\ \E ok \in BOOLEAN :
       /\ Called("captureFullHistory", NoReq,
                 captureFullHistoryCall(world.session, ok))
       /\ world' = world

ListSessions ==
  /\ pc = "idle"
  /\ \E ok \in BOOLEAN :
       /\ Called("listSessions", NoReq, listSessions(ok))
       /\ world' = world

Heartbeat ==
  /\ pc = "idle"
  /\ \E listOk \in BOOLEAN, pidStr \in {"", "4242"}, rootLive \in BOOLEAN,
        pgrep \in PgrepOutcomes :
       /\ Called("heartbeat",
                 [NoReq EXCEPT !.key = pidStr, !.rootLive = rootLive,
                               !.pgrep = pgrep],
                 heartbeat(world.session, listOk, pidStr, rootLive, pgrep))
       /\ world' = world

\* The session closes: someone presses Enter at the wrapper's `read`.
SessionEnds ==
  /\ pc = "idle"
  /\ world.session
  /\ world' = [world EXCEPT !.session = FALSE]
  /\ req' = NoReq
  /\ cmds' = <<>>
  /\ ret' = NoRet
  /\ UNCHANGED <<pc, wait, waits, besideAdapter>>

AdapterInit == InitWith(1)

AdapterNext ==
  \/ CreateSessionBegin
  \/ CreateSessionSpawn
  \/ WaitPoll
  \/ SendKey3
  \/ SendKeyEnter
  \/ DeliverPrompt
  \/ SubmitPrompt
  \/ SendMessage
  \/ SendControl
  \/ KillSession
  \/ CapturePane
  \/ CaptureFullHistory
  \/ ListSessions
  \/ Heartbeat
  \/ SessionEnds

\* The calls made on the session adapter for one job.
AdapterSpec == AdapterInit /\ [][AdapterNext]_vars

\* The same calls, with the polling loop of waitForPaneContent scheduled fairly.
WaitSpec == AdapterInit /\ [][AdapterNext]_vars /\ WF_vars(WaitPoll)

BadModels == {<<"a", ";", "Z">>, <<"a", " ", "5">>, <<>>}

Made(i) == cmds[i]

\* C14: a createSession given an invalid job id or an invalid model runs no
\* tmux command and writes no file, and is over at once; for an invalid model
\* (and a valid id) it returns success=false with the error 'Invalid model: '
\* followed by the model.
C14_ValidationBeforeEffects ==
  (req.op = "createSession" /\ (req.jobId = BadId \/ req.model \in BadModels)) =>
    /\ pc = "idle"
    /\ \A i \in 1..Len(cmds) : Made(i).tool # "tmux" /\ Made(i).cmd # "write"
    /\ ~world.session
    /\ req.jobId # BadId =>
         /\ ~ret.raised
         /\ ret.value = "failure"
         /\ ret.error = <<"Invalid model: ">> \o req.model

\* C14 witness: a valid id with a model that carries a ';'.
C14_Witness ==
  /\ req.op = "createSession"
  /\ req.jobId = GoodId
  /\ req.model = <<"a", ";", "Z">>
  /\ ret.op = "createSession"
  /\ ret.value = "failure"

\* C15: when createSession has returned success=false, the session of that
\* job does not exist.
C15_NoOrphanOnFailure ==
  (ret.op = "createSession" /\ ret.value = "failure") => ~world.session

\* C16: no tmux command carries the text; load-buffer comes right after the
\* text was written to the temporary file, paste-buffer right after a
\* load-buffer that succeeded, and the Enter that submits the text after a
\* paste-buffer that succeeded; in createSession the text is written only
\* after the keys '3' and Enter were sent; a call that reports success has
\* pasted the text and ended with Enter.
C16_BufferDelivery ==
  /\ \A i \in 1..Len(cmds) : Made(i).tool = "tmux" => Made(i).text = NoText
  /\ \A i \in 1..Len(cmds) :
       Made(i).cmd = "load-buffer" =>
         i > 1 /\ Made(i - 1) = Eff("fs", "write", "tmpFile", req.text, TRUE)
  /\ \A i \in 1..Len(cmds) :
       Made(i).cmd = "paste-buffer" =>
         i > 1 /\ Made(i - 1).cmd = "load-buffer" /\ Made(i - 1).ok
  /\ \A i \in 1..Len(cmds) :
       (/\ Made(i).cmd = "send-keys"
        /\ \E j \in 1..(i - 1) : Made(j).cmd = "write" /\ Made(j).target = "tmpFile")
         => \E k \in 1..(i - 1) : Made(k).cmd = "paste-buffer" /\ Made(k).ok
  /\ \A i \in 1..Len(cmds) :
       (/\ req.op = "createSession"
        /\ Made(i).cmd = "write" /\ Made(i).target = "tmpFile")
         => \E a \in 1..(i - 1), b \in 1..(i - 1) :
              /\ a < b
              /\ Made(a) = Eff("tmux", "send-keys", "3", NoText, TRUE)
              /\ Made(b) = Eff("tmux", "send-keys", "Enter", NoText, TRUE)
  /\ (/\ ret.op \in {"createSession", "sendMessage"}
      /\ ret.value \in {"success", "true"})
       => /\ \E k \in 1..Len(cmds) : Made(k).cmd = "paste-buffer" /\ Made(k).ok
          /\ Made(Len(cmds)) = Eff("tmux", "send-keys", "Enter", NoText, TRUE)

\* C16 witness: createSession succeeded with a prompt that reads like a key.
C16_Witness ==
  /\ ret.op = "createSession"
  /\ ret.value = "success"
  /\ req.text = "Enter"
  /\ \E k \in 1..Len(cmds) : Made(k) = Eff("fs", "write", "tmpFile", "Enter", TRUE)

\* C17: sendControl with a key other than C-c, C-z, Enter and Escape returns
\* false and runs no command at all; the only key it ever sends is the one it
\* was given, and that one is among the four.
C17_ControlAllowList ==
  req.op = "sendControl" =>
    /\ req.key \notin {"C-c", "C-z", "Enter", "Escape"} =>
         ret.value = "false" /\ cmds = <<>> /\ ~ret.raised
    /\ \A i \in 1..Len(cmds) :
         Made(i).cmd = "send-keys" =>
           Made(i).target = req.key /\ req.key \in {"C-c", "C-z", "Enter", "Escape"}
    /\ ret.value = "true" => req.exists

\* C17 witness: Tab was refused although the session was there.
C17_Witness ==
  /\ req.op = "sendControl"
  /\ req.key = "Tab"
  /\ req.exists
  /\ ret.value = "false"

\* C18: only createSession given an invalid id raises.  When the session is
\* absent or a tmux command of the call fails, sendMessage, sendControl and
\* killSession return false, capturePane and captureFullHistory null,
\* listSessions the empty list and heartbeat alive=false.
C18_SoftFailures ==
  LET failed == \E i \in 1..Len(cmds) : Made(i).tool = "tmux" /\ ~Made(i).ok IN
  /\ ret.raised => ret.op = "createSession" /\ req.jobId = BadId
  /\ (failed /\ ret.op \in {"sendMessage", "sendControl", "killSession"})
       => ret.value = "false"
  /\ (failed /\ ret.op \in {"capturePane", "captureFullHistory"})
       => ret.value = "null"
  /\ (failed /\ ret.op = "listSessions") => ret.value = "empty"
  /\ (failed /\ ret.op = "heartbeat") => ret.value = "dead"

\* C18 witness: kill-session failed on a session that exists.
C18_Witness ==
  /\ ret.op = "killSession"
  /\ req.exists
  /\ world.session
  /\ Len(cmds) = 2 /\ ~Made(2).ok
  /\ ret.value = "false"

\* C19: heartbeat reports alive only when the session exists, its root
\* process is live and pgrep found a child of it.
C19_AliveNeedsChild ==
  (ret.op = "heartbeat" /\ ret.value = "alive") =>
    req.exists /\ req.rootLive /\ req.pgrep = "children"

\* C20: a wait makes at most tmuxPollTimeoutMs / tmuxPollIntervalMs polls and
\* never lasts longer than the timeout; it comes to an end even when the pane
\* stays empty; and whatever it returned, createSession goes on with the key
\* that follows it, or with the delivery of the prompt.
C20_BoundedWaitFailsOpen ==
  /\ [](/\ wait.polls <= tmuxPollTimeoutMs \div tmuxPollIntervalMs
        /\ wait.elapsed <= tmuxPollTimeoutMs)
  /\ [][(pc \in WaitSteps /\ pc' # pc) =>
          /\ pc = "wait1" => pc' = "key3"
          /\ pc = "wait2" => pc' = "enter"
          /\ pc = "wait3" => pc' = "deliver"
          /\ cmds' = cmds /\ ret' = ret /\ world' = world]_vars
  /\ \A step \in WaitSteps : (pc = step) ~> (pc # step)

\* C20 witness: createSession succeeded although its three waits timed out.
C20_Witness ==
  /\ ret.op = "createSession"
  /\ ret.value = "success"
  /\ waits = <<FALSE, FALSE, FALSE>>

\* ====================================================== the claim store file
\* The job ids claims are made for, and the patterns: a directory tree, a file
\* in it, a sibling directory with the same name stem, a brace alternative.
ClaimJobs == {1, 2}
PatTree == <<"s", "/", "a", "/", "*", "*">>
PatFile == <<"s", "/", "a", "/", "l">>
PatSibling == <<"s", "/", "a", "b", "/", "*">>
PatBrace == <<"s", "/", "{", "a", ",", "b", "}">>
ClaimPatterns == {PatTree, PatFile, PatSibling, PatBrace}

Writers == {"addClaim", "removeClaims", "cleanStaleClaims"}
Readers == {"listClaims", "checkOverlaps"}

Calling(op, jobId, pattern, active, data) ==
  [IdleCoord EXCEPT !.op = op, !.jobId = jobId, !.pattern = pattern,
                    !.active = active, !.pre = data,
                    !.among = IF op \in Readers THEN versions ELSE {}]

\* The coordinators whose addClaim has not returned yet.
Adding == {q \in DOMAIN coord : coord[q].pc # "idle" /\ coord[q].op = "addClaim"}

\* addClaim(jobId, pattern), up to its saveClaims.
AddClaimLoad(p, jobIds, patterns) ==
  /\ coord[p].pc = "idle"
  /\ LET data == loadClaimsFrom(claimsFile) IN
     /\ Len(data) < MaxClaims
     /\ Len(ledger) + Cardinality(Adding) < MaxClaims
     /\ \E j \in jobIds, pattern \in patterns :
          coord' = [coord EXCEPT ![p] =
                      [Calling("addClaim", j, pattern, {}, data) EXCEPT
                         !.pc = "open", !.data = addClaim(data, j, pattern)]]
  /\ UNCHANGED <<claimsFile, versions, ledger, besideClaims>>

\* removeClaims(jobId), up to its saveClaims.
RemoveClaimsLoad(p, jobIds) ==
  /\ coord[p].pc = "idle"
  /\ LET data == loadClaimsFrom(claimsFile) IN
     \E j \in jobIds :
       coord' = [coord EXCEPT ![p] =
                   [Calling("removeClaims", j, <<>>, {}, data) EXCEPT
                      !.pc = "open", !.data = removeClaims(data, j)]]
  /\ UNCHANGED <<claimsFile, versions, ledger, besideClaims>>

\* cleanStaleClaims(activeJobIds), up to its saveClaims.
CleanStaleClaimsLoad(p) ==
  /\ coord[p].pc = "idle"
  /\ LET data == loadClaimsFrom(claimsFile) IN
     \E active \in SUBSET ClaimJobs :
       LET r == cleanStaleClaims(data, active) IN
       coord' = [coord EXCEPT ![p] =
                   [Calling("cleanStaleClaims", 0, <<>>, active, data) EXCEPT
                      !.pc = "open", !.data = r.claims, !.count = r.removed]]
  /\ UNCHANGED <<claimsFile, versions, ledger, besideClaims>>

\* saveClaims: writeFileSync opens the file.
SaveOpen(p) ==
  /\ coord[p].pc = "open"
  /\ claimsFile' = openTruncate(claimsFile)
  /\ coord' = [coord EXCEPT ![p].pc = "write"]
  /\ versions' = versions \cup {coord[p].data}
  /\ UNCHANGED <<ledger, besideClaims>>

\* What the call of p makes of a list.
Applied(p, list) ==
  IF coord[p].op = "addClaim"
  THEN addClaim(list, coord[p].jobId, coord[p].pattern)
  ELSE IF coord[p].op = "removeClaims" THEN removeClaims(list, coord[p].jobId)
  ELSE cleanStaleClaims(list, coord[p].active).claims

\* saveClaims: writeFileSync writes the text and the call returns.
SaveWrite(p) ==
  /\ coord[p].pc = "write"
  /\ claimsFile' = writeFromStart(claimsFile, stringifyClaims(coord[p].data))
  /\ coord' = [coord EXCEPT ![p].pc = "idle"]
  /\ versions' = IF \E q \in DOMAIN coord : q # p /\ coord[q].pc = "write"
                 THEN versions ELSE {coord[p].data}
  /\ ledger' = Applied(p, ledger)
  /\ UNCHANGED besideClaims

\* listClaims().
ListClaims(p) ==
  /\ coord[p].pc = "idle"
  /\ LET data == loadClaimsFrom(claimsFile) IN
     coord' = [coord EXCEPT ![p] =
                 [Calling("listClaims", 0, <<>>, {}, data) EXCEPT
                    !.ret = data]]
  /\ UNCHANGED <<claimsFile, versions, ledger, besideClaims>>

\* checkOverlaps(jobId, pattern).
CheckOverlaps(p, jobIds, patterns) ==
  /\ coord[p].pc = "idle"
  /\ LET data == loadClaimsFrom(claimsFile) IN
     \E j \in jobIds, pattern \in patterns :
       coord' = [coord EXCEPT ![p] =
                   [Calling("checkOverlaps", j, pattern, {}, data) EXCEPT
                      !.ret = checkOverlaps(data, j, pattern)]]
  /\ UNCHANGED <<claimsFile, versions, ledger, besideClaims>>

ClaimInit(n) ==
  /\ IdIdle /\ StoreIdle /\ AdapterIdle /\ CallIdle /\ CliIdle /\ RegistryInit(1)
  /\ claimsFile = <<>>
  /\ coord = [p \in 1..n |-> IdleCoord]
  /\ versions = {<<>>}
  /\ ledger = <<>>

ClaimStep(p, jobIds, patterns) ==
  \/ AddClaimLoad(p, jobIds, patterns)
  \/ RemoveClaimsLoad(p, jobIds)
  \/ CleanStaleClaimsLoad(p)
  \/ SaveOpen(p)
  \/ SaveWrite(p)
  \/ ListClaims(p)
  \/ CheckOverlaps(p, jobIds, patterns)

\* One coordinator using the claim store.
ClaimInit1 == ClaimInit(1)
ClaimNext == ClaimStep(1, ClaimJobs, ClaimPatterns)
ClaimSpec == ClaimInit1 /\ [][ClaimNext]_vars

\* Two coordinators using it at the same time, each for its own job; the
\* second one adds claims and lists them.
RaceInit == ClaimInit(2)
RaceNext ==
  \/ ClaimStep(1, {1}, {PatTree})
  \/ AddClaimLoad(2, {2}, {PatTree})
  \/ SaveOpen(2)
  \/ SaveWrite(2)
  \/ ListClaims(2)
RaceSpec == RaceInit /\ [][RaceNext]_vars

\* The list in the claim store file.
Stored == loadClaimsFrom(claimsFile)

Done(p, ops) == coord[p].pc = "idle" /\ coord[p].op \in ops

\* C21: a reader (listClaims, checkOverlaps) interleaved with a writer sees a
\* complete list: the one the store held before the write or the one being
\* written, never a partly written or emptied store.
C21_AtomicReplace ==
  \A p \in DOMAIN coord :
    coord[p].op \in Readers => coord[p].pre \in coord[p].among

HasClaim(list, jobId, pattern) ==
  \E i \in 1..Len(list) : list[i].jobId = jobId /\ list[i].pattern = pattern

\* C22: once two coordinators have both returned from addClaim for different
\* jobs, and neither claim has been removed since, the store holds both
\* claims.
C22_NoLostClaim ==
  \A p, q \in DOMAIN coord :
    (/\ p # q
     /\ Done(p, {"addClaim"}) /\ Done(q, {"addClaim"})
     /\ coord[p].jobId # coord[q].jobId
     /\ HasClaim(ledger, coord[p].jobId, coord[p].pattern)
     /\ HasClaim(ledger, coord[q].jobId, coord[q].pattern))
    => /\ HasClaim(Stored, coord[p].jobId, coord[p].pattern)
       /\ HasClaim(Stored, coord[q].jobId, coord[q].pattern)

\* C23: addClaim(jobId, pattern) leaves the stored list as it was, with one
\* record {jobId, pattern} more at its end; so successive calls leave their
\* claims in call order.
C23_AddAppendsOne ==
  Done(1, {"addClaim"}) =>
    /\ Len(Stored) = Len(coord[1].pre) + 1
    /\ SubSeq(Stored, 1, Len(coord[1].pre)) = coord[1].pre
    /\ Stored[Len(Stored)].jobId = coord[1].jobId
    /\ Stored[Len(Stored)].pattern = coord[1].pattern

\* C23 witness: a claim was added after a claim of another job, and follows it.
C23_Witness ==
  /\ Done(1, {"addClaim"})
  /\ Len(coord[1].pre) >= 1
  /\ coord[1].pre[1].jobId # coord[1].jobId
  /\ Len(Stored) = Len(coord[1].pre) + 1
  /\ Stored[1] = coord[1].pre[1]

\* The records of a list whose job id is among ids, in their order.
RECURSIVE Keeping(_, _)
Keeping(list, ids) ==
  IF list = <<>> THEN <<>>
  ELSE IF Head(list).jobId \in ids
  THEN <<Head(list)>> \o Keeping(Tail(list), ids)
  ELSE Keeping(Tail(list), ids)

JobIdsIn(list) == {list[i].jobId : i \in 1..Len(list)}

\* C24: after removeClaims(jobId) the store is the previous list without the
\* records of that job: every record of another job is kept, in order.
C24_RemoveExactlyJob ==
  Done(1, {"removeClaims"}) =>
    Stored = Keeping(coord[1].pre, JobIdsIn(coord[1].pre) \ {coord[1].jobId})

\* C24 witness: the claims of a job were removed from between those of
\* another job, which are left.
C24_Witness ==
  /\ Done(1, {"removeClaims"})
  /\ coord[1].jobId \in JobIdsIn(coord[1].pre)
  /\ JobIdsIn(Stored) # {}
  /\ coord[1].jobId \notin JobIdsIn(Stored)
  /\ Len(Stored) < Len(coord[1].pre)

Wildcards == {"*", "{"}

\* The text of a pattern before its first wildcard.
LiteralPrefix(pattern) ==
  LET free == {k \in 0..Len(pattern) : \A i \in 1..k : pattern[i] \notin Wildcards}
  IN SubSeq(pattern, 1, CHOOSE k \in free : \A m \in free : m <= k)

IsPrefixOf(s, t) == \E k \in 0..Len(t) : s = SubSeq(t, 1, k)

Related(a, b) ==
  \/ IsPrefixOf(LiteralPrefix(a), LiteralPrefix(b))
  \/ IsPrefixOf(LiteralPrefix(b), LiteralPrefix(a))
  \/ a = b

\* The records of other jobs whose pattern is related to the given one.
RECURSIVE RelatedClaims(_, _, _)
RelatedClaims(list, jobId, pattern) ==
  IF list = <<>> THEN <<>>
  ELSE IF Head(list).jobId # jobId /\ Related(Head(list).pattern, pattern)
  THEN <<Head(list)>> \o RelatedClaims(Tail(list), jobId, pattern)
  ELSE RelatedClaims(Tail(list), jobId, pattern)

\* C25: checkOverlaps(jobId, pattern) returns exactly the stored claims of
\* other jobs whose literal prefix is a prefix of the pattern's literal prefix
\* or has it as a prefix, or whose pattern is the same text; the store is
\* left as it was.
C25_CheckOverlapsExact ==
  coord[1].op = "checkOverlaps" =>
    /\ coord[1].ret = RelatedClaims(coord[1].pre, coord[1].jobId, coord[1].pattern)
    /\ Stored = coord[1].pre

\* C25 witness: of two stored claims with the same prefix as the pattern
\* asked about, the asking job's own is left out and the other job's returned.
C25_Witness ==
  /\ coord[1].op = "checkOverlaps"
  /\ Len(coord[1].pre) = MaxClaims
  /\ coord[1].jobId \in JobIdsIn(coord[1].pre)
  /\ \A i \in 1..Len(coord[1].pre) : Related(coord[1].pre[i].pattern, coord[1].pattern)
  /\ Len(coord[1].ret) = 1
  /\ coord[1].ret[1].pattern # coord[1].pattern

\* C27: cleanStaleClaims(activeIds) leaves exactly the claims whose job id is
\* in activeIds, in their order, wherever they stood in the list, and returns
\* how many it removed.
C27_CleanStaleExact ==
  Done(1, {"cleanStaleClaims"}) =>
    /\ Stored = Keeping(coord[1].pre, coord[1].active)
    /\ coord[1].count = Len(coord[1].pre) - Len(Stored)

\* C27 witness: a claim of a job that is gone stood before the claim of an
\* active job; it was removed and counted, the other is left.
C27_Witness ==
  /\ Done(1, {"cleanStaleClaims"})
  /\ Len(coord[1].pre) >= 2
  /\ coord[1].pre[1].jobId \notin coord[1].active
  /\ coord[1].count = 1
  /\ Len(Stored) = Len(coord[1].pre) - 1

\* ============================================================ text functions
\* Every sequence of at most n elements of S.
SeqsUpTo(S, n) == UNION {[1..k -> S] : k \in 0..n}

AsText(bool) == IF bool THEN <<"true">> ELSE <<"false">>

Asked(a, b) == [fn |-> "none", a |-> a, b |-> b, ret |-> NoResult]

\* The characters of a pattern: letters, the path separator, the wildcards.
PatternChars == {"a", "/", "*", "{"}
PatternTexts == SeqsUpTo(PatternChars, MaxPatternLen)

\* patternsOverlap(a, b) for the two patterns given.
PatternsOverlap ==
  /\ call.fn = "none"
  /\ call' = [call EXCEPT !.fn = "patternsOverlap",
                          !.ret = AsText(patternsOverlap(call.a, call.b))]
  /\ UNCHANGED besideCall

PatternInit ==
  /\ IdIdle /\ StoreIdle /\ AdapterIdle /\ ClaimIdle /\ CliIdle /\ RegistryInit(1)
  /\ call \in {Asked(a, b) : a \in PatternTexts, b \in PatternTexts}

PatternNext == PatternsOverlap

\* patternsOverlap on every pair of patterns.
PatternSpec == PatternInit /\ [][PatternNext]_vars

\* C26: a overlaps b exactly when b overlaps a.
C26_OverlapSymmetric ==
  call.fn = "patternsOverlap" =>
    call.ret = AsText(patternsOverlap(call.b, call.a))

\* C26 witness: two patterns overlap of which the first has the longer literal
\* prefix.
C26_Witness ==
  /\ call.fn = "patternsOverlap"
  /\ call.ret = AsText(TRUE)
  /\ Len(LiteralPrefix(call.a)) > Len(LiteralPrefix(call.b))
  /\ Len(LiteralPrefix(call.b)) > 0

\* The characters of a captured pane: two letters and the line break.
TextChars == {"a", "b", NL}
Texts == SeqsUpTo(TextChars, MaxTextLen)

\* Two windows on the same output, the second shifted by two lines.
Window14 == <<"1", NL, "2", NL, "3", NL, "4">>
Window36 == <<"3", NL, "4", NL, "5", NL, "6">>

\* incrementalDiff(prev, curr) for the two snapshots given.
IncrementalDiff ==
  /\ call.fn = "none"
  /\ call' = [call EXCEPT !.fn = "incrementalDiff",
                          !.ret = incrementalDiff(call.a, call.b)]
  /\ UNCHANGED besideCall

DiffInit ==
  /\ IdIdle /\ StoreIdle /\ AdapterIdle /\ ClaimIdle /\ CliIdle /\ RegistryInit(1)
  /\ call \in {Asked(prev, curr) : prev \in Texts, curr \in Texts}
              \cup {Asked(Window14, Window36)}

DiffNext == IncrementalDiff

\* incrementalDiff on every pair of snapshots.
DiffSpec == DiffInit /\ [][DiffNext]_vars

\* A text as a sequence of lines; the empty text has none.
LinesOf(text) == IF text = <<>> THEN <<>> ELSE split(text)

\* The numbers k > 0 for which the last k lines of prev are the first k lines
\* of curr.
Overlaps(prev, curr) ==
  LET P == LinesOf(prev)
      C == LinesOf(curr)
  IN {k \in 1..Len(C) : k <= Len(P) /\ SubSeq(P, Len(P) - k + 1, Len(P)) = SubSeq(C, 1, k)}

Largest(S) == CHOOSE k \in S : \A m \in S : m <= k

\* The lines of a text after its first k lines, as text.
After(text, k) == join(SubSeq(LinesOf(text), k + 1, Len(LinesOf(text))))

\* C28: incrementalDiff(prev, curr) is what follows in curr after the largest
\* k for which the last k lines of prev are the first k lines of curr; curr
\* itself when there is no such k > 0; always a line-suffix of curr.
C28_DiffIsRemainder ==
  call.fn = "incrementalDiff" =>
    /\ call.ret = IF Overlaps(call.a, call.b) = {} THEN call.b
                  ELSE After(call.b, Largest(Overlaps(call.a, call.b)))
    /\ \E k \in 0..Len(LinesOf(call.b)) : call.ret = After(call.b, k)
    /\ (call.a = Window14 /\ call.b = Window36) => call.ret = <<"5", NL, "6">>

\* C28 witness: the snapshots overlap in one line and also in two; what is
\* returned is the text after the two.
C28_Witness ==
  /\ call.fn = "incrementalDiff"
  /\ {1, 2} \subseteq Overlaps(call.a, call.b)
  /\ call.ret # <<>>
  /\ call.ret = After(call.b, 2)

\* C29: incrementalDiff(x, x) is the empty text for every non-empty x, and
\* incrementalDiff('', curr) is curr.
C29_DiffIdentities ==
  call.fn = "incrementalDiff" =>
    /\ (call.a = call.b /\ call.a # <<>>) => call.ret = <<>>
    /\ call.a = <<>> => call.ret = call.b

\* C29 witness: a snapshot of several lines compared with itself.
C29_Witness ==
  /\ call.fn = "incrementalDiff"
  /\ call.a = call.b
  /\ Len(split(call.a)) >= 2
  /\ call.ret = <<>>

\* ============================================================ session handle
\* C30: a persisted record carries a session handle only if the job has
\* reached running: the handle is written together with the status running,
\* a record that has it is running or terminal, and a job that is pending,
\* or that failed at creation, has none.
C30_HandleOnlyOnceRunning ==
  [][\A j \in JobIds :
       /\ (jobs'[j].tmuxSession /\ ~jobs[j].tmuxSession)
            => jobs'[j].status = "running"
       /\ jobs'[j].tmuxSession
            => jobs'[j].status \in {"running"} \cup TerminalStatuses
       /\ jobs'[j].status = "pending" => ~jobs'[j].tmuxSession
       /\ (jobs[j].status = "pending" /\ jobs'[j].status = "failed")
            => ~jobs'[j].tmuxSession]_vars

\* C30 witness: a job failed at creation, no session was spawned for it, and
\* its record has no handle.
C30_Witness ==
  \E j \in JobIds :
    /\ jobs[j].status = "failed"
    /\ jobs[j].error = <<"createSession failed">>
    /\ sess[j].phase = "none"
    /\ ~jobs[j].tmuxSession

\* ======================================================= transcript parser
\* The token-count records tried: the test's figures, and two whose
\* percentage falls on a half.
TokenRecords ==
  {TokenCount(100, 40, 2000), TokenCount(1, 3, 8), TokenCount(3, 0, 8)}

MessageRecords == {AgentMessage("Completed report"), AgentMessage(ErrLine)}

\* A record of a kind the parser does not know.
OtherRecord ==
  [type |-> "turn_context", input |-> 0, output |-> 0, window |-> 0,
   message |-> "", body |-> <<>>]

\* The patch of the report test.
TestPatch ==
  << <<"*** Begin Patch", "">>, <<AddMark, "src/new.ts">>,
     <<UpdateMark, "src/existing.ts">>, <<DeleteMark, "src/old.ts">>,
     <<"*** End Patch", "">> >>

\* Body lines: one file under two spellings, and a line that marks nothing.
PatchLines ==
  { <<AddMark, "src/a.ts">>, <<AddMark, "./src/a.ts">>,
    <<UpdateMark, "src/a.ts">>, <<DeleteMark, "src/a.ts">>,
    <<"*** Begin Patch", "">> }

Bodies == SeqsUpTo(PatchLines, MaxPatchLines)

PlainRecords ==
  TokenRecords \cup MessageRecords \cup {OtherRecord, ApplyPatch(TestPatch)}

RawTexts == SeqsUpTo({PlainLine, ErrLine, WarnLine}, MaxRawLines)

ParseAsked(file, raw) ==
  [fn |-> "none", a |-> file, b |-> raw, ret |-> EmptyParsed]

\* parseJsonlSession(content) on the structured log given.
ParseJsonlSession ==
  /\ call.fn = "none"
  /\ call.a.found
  /\ call' = [call EXCEPT !.fn = "parseJsonlSession",
                          !.ret = parseJsonlSession(call.a.records)]
  /\ UNCHANGED besideCall

\* generateSessionReport(sessionFilePath, rawLogText).
GenerateSessionReport ==
  /\ call.fn = "none"
  /\ call' = [call EXCEPT !.fn = "generateSessionReport",
                          !.ret = generateSessionReport(call.a, call.b)]
  /\ UNCHANGED besideCall

ParseInit ==
  /\ IdIdle /\ StoreIdle /\ AdapterIdle /\ ClaimIdle /\ CliIdle /\ RegistryInit(1)
  /\ call \in
       {ParseAsked(file, raw) :
          file \in {NoSessionFile}
                   \cup {SessionFile(log) : log \in SeqsUpTo(PlainRecords, MaxRecords)},
          raw \in RawTexts}
       \cup {ParseAsked(SessionFile(<<ApplyPatch(b1), ApplyPatch(b2)>>), <<>>) :
               b1 \in Bodies, b2 \in Bodies}

ParseNext == ParseJsonlSession \/ GenerateSessionReport

\* The parser and the report on every log and transcript of the sets above.
ParseSpec == ParseInit /\ [][ParseNext]_vars

\* The positions of the records of one type in a log.
RecordsOf(records, type) == {i \in 1..Len(records) : records[i].type = type}

Latest(S) == CHOOSE k \in S : \A i \in S : i <= k

\* The whole number nearest to num / den, the upper one of two equally near.
Nearest(num, den) ==
  CHOOSE p \in 0..(num \div den + 1) :
    2 * p * den - den <= 2 * num /\ 2 * num < 2 * p * den + den

\* The tally kept is that of the latest token-count record, with the
\* percentage computed from the amount given.
TalliesLatest(records, tokens, Amount(_)) ==
  LET at == RecordsOf(records, "token_count") IN
  IF at = {} THEN tokens = <<>>
  ELSE LET rec == records[Latest(at)] IN
       /\ Len(tokens) = 1
       /\ tokens[1].input = rec.input
       /\ tokens[1].output = rec.output
       /\ tokens[1].context_window = rec.window
       /\ tokens[1].context_used_pct = Nearest(100 * Amount(rec), rec.window)

InputAndOutput(rec) == rec.input + rec.output
InputOnly(rec) == rec.input

\* C31 as stated: the tally is that of the latest token-count record, with
\* used-percentage = round(100 * (input + output) / window), and input 100,
\* output 40, window 2000 gives 5.
C31_UsedPctOfInputAndOutput ==
  call.fn = "parseJsonlSession" =>
    /\ TalliesLatest(call.a.records, call.ret.tokens, InputAndOutput)
    /\ call.a.records = <<TokenCount(100, 40, 2000)>>
         => call.ret.tokens[1].context_used_pct = 5

\* C31 amended: the tally is that of the latest token-count record, with
\* used-percentage = round(100 * input / window); input 100, output 40,
\* window 2000 gives 5.
C31_UsedPctOfInput ==
  call.fn = "parseJsonlSession" =>
    /\ TalliesLatest(call.a.records, call.ret.tokens, InputOnly)
    /\ call.a.records = <<TokenCount(100, 40, 2000)>>
         => call.ret.tokens[1].context_used_pct = 5

\* C31 witness: two token-count records were read, the later one with a
\* percentage that falls on a half, and the later one is kept.
C31_Witness ==
  /\ call.fn = "parseJsonlSession"
  /\ call.a.records = <<TokenCount(100, 40, 2000), TokenCount(1, 3, 8)>>
  /\ call.ret.tokens[1].context_used_pct = 13

\* The body lines of the patch records of a log, in order.
RECURSIVE PatchLinesOf(_)
PatchLinesOf(records) ==
  IF records = <<>> THEN <<>>
  ELSE (IF Head(records).type = "apply_patch" THEN Head(records).body ELSE <<>>)
       \o PatchLinesOf(Tail(records))

\* The paths of the lines with the given marker, in order, repeats included.
PathsMarked(lines, mark) ==
  LET Marked(line) == line[1] = mark
      hits == SelectSeq(lines, Marked)
  IN [i \in 1..Len(hits) |-> hits[i][2]]

FirstAt(paths, path) ==
  CHOOSE i \in 1..Len(paths) :
    paths[i] = path /\ \A k \in 1..(i - 1) : paths[k] # path

\* list holds each of the paths once, in the order of their first occurrence.
ListsFirstOccurrences(list, paths) ==
  /\ {list[i] : i \in 1..Len(list)} = {paths[i] : i \in 1..Len(paths)}
  /\ \A i, k \in 1..Len(list) :
       i < k => FirstAt(paths, list[i]) < FirstAt(paths, list[k])

ListsPatches(stats, records) ==
  LET lines == PatchLinesOf(records) IN
  /\ ListsFirstOccurrences(stats.files_added, PathsMarked(lines, AddMark))
  /\ ListsFirstOccurrences(stats.files_updated, PathsMarked(lines, UpdateMark))
  /\ ListsFirstOccurrences(stats.files_deleted, PathsMarked(lines, DeleteMark))

\* C32: each marked body line puts its literal path on the list of its
\* marker; a list keeps first-occurrence order and holds no path twice; and
\* the patch of the test gives one entry in each list.
C32_PatchLists ==
  call.fn = "parseJsonlSession" =>
    /\ ListsPatches(call.ret.diff_stats, call.a.records)
    /\ call.a.records = <<ApplyPatch(TestPatch)>>
         => call.ret.diff_stats =
              [files_added |-> <<"src/new.ts">>,
               files_updated |-> <<"src/existing.ts">>,
               files_deleted |-> <<"src/old.ts">>]

\* C32 witness: a path was marked added three times, between them the same
\* file under another spelling; both spellings are listed, each once.
C32_Witness ==
  /\ call.fn = "parseJsonlSession"
  /\ PathsMarked(PatchLinesOf(call.a.records), AddMark)
       = <<"src/a.ts", "./src/a.ts", "src/a.ts", "src/a.ts">>
  /\ call.ret.diff_stats.files_added = <<"src/a.ts", "./src/a.ts">>

\* What the raw transcript shows, signature by signature.
ErrorsShown(raw) ==
  (IF Contains(raw, ErrLine) THEN <<"Error line detected">> ELSE <<>>)
  \o (IF Contains(raw, ExitLine) THEN <<"Non-zero process exit">> ELSE <<>>)

WarningsShown(raw) ==
  IF Contains(raw, WarnLine) THEN <<"Deprecation warning">> ELSE <<>>

LatestMessage(records) ==
  LET at == RecordsOf(records, "agent_message") IN
  IF at = {} THEN Null ELSE <<records[Latest(at)].message>>

\* C33: the report's diff statistics and summary (the latest message record)
\* are those of the structured log when there is one; its error and warning
\* lists are those of the raw transcript, whatever the structured log holds.
C33_ReportSources ==
  call.fn = "generateSessionReport" =>
    /\ call.ret.errors = ErrorsShown(call.b)
    /\ call.ret.warnings = WarningsShown(call.b)
    /\ call.a.found =>
         /\ call.ret.summary = LatestMessage(call.a.records)
         /\ ListsPatches(call.ret.diff_stats, call.a.records)

\* C33 witness: the latest message of the structured log is an error line,
\* the raw transcript shows a warning and no error; the report has the
\* message as its summary, the warning, and no error.
C33_Witness ==
  /\ call.fn = "generateSessionReport"
  /\ call.a.found
  /\ call.ret.summary = <<ErrLine>>
  /\ call.ret.errors = <<>>
  /\ call.ret.warnings = <<"Deprecation warning">>

\* ============================================================ polling loops
\* The lines the watch command asks for at each poll.
WatchLines == 100

\* getJobOutput(jobId, lines): the pane of the job's session, or else the tail
\* of its transcript file; null when neither can be read.
getJobOutput(j, lines, capOk, readOk) ==
  LET pane == capturePane(j, lines, "none", capOk) IN
  IF pane # Null THEN pane
  ELSE IF readOk THEN LastLines(TranscriptFile(j), lines)
  ELSE Null

\* A loop not started: no timer, nothing shown yet.
NoLoop ==
  [pc |-> "none", id |-> 0, interval |-> "none", running |-> FALSE,
   lastOutput |-> <<>>, screen |-> <<>>, code |-> 0, sigint |-> FALSE]

\* The watch command up to its setInterval: it exits with 1 when the job has
\* no record or no session handle.
watchStart(w, j, job) ==
  IF job.status = "none" \/ ~job.tmuxSession
  THEN [w EXCEPT !.pc = "exited", !.id = j, !.code = 1]
  ELSE [w EXCEPT !.pc = "polling", !.id = j, !.interval = "set",
                 !.lastOutput = <<>>]

\* A poll that ends the watch only when the job has completed.
watchPollUntilCompleted(w, output, refreshed) ==
  LET shown == IF output # Null /\ output # <<>> /\ output # w.lastOutput
               THEN [w EXCEPT !.lastOutput = output] ELSE w
  IN IF refreshed.status = "completed"
     THEN [shown EXCEPT !.interval = "cleared", !.pc = "exited", !.code = 0]
     ELSE shown

\* The interval callback of the watch command, given what getJobOutput and
\* refreshJobStatus returned (a record of status "none": null).
watchPoll(w, output, refreshed) ==
  LET shown == IF output # Null /\ output # <<>> /\ output # w.lastOutput
               THEN [w EXCEPT !.lastOutput = output] ELSE w
  IN IF refreshed.status # "none" /\ refreshed.status # "running"
     THEN [shown EXCEPT !.interval = "cleared", !.pc = "exited", !.code = 0]
     ELSE shown

\* The SIGINT handler of the watch command.
watchSigint(w) ==
  [w EXCEPT !.interval = "cleared", !.pc = "exited", !.code = 0, !.sigint = TRUE]

\* runDashboard up to its first refresh.
dashStart(d) == [d EXCEPT !.pc = "polling", !.running = TRUE]

\* The SIGINT handler of the dashboard.
dashSigint(d) ==
  [d EXCEPT !.running = FALSE, !.interval = "cleared", !.pc = "exited",
            !.code = 0, !.sigint = TRUE]

\* The watch command is started for job j.
WatchStart(j) ==
  /\ cli.watch.pc = "none"
  /\ cli' = [cli EXCEPT !.watch = watchStart(@, j, loadJob(j))]
  /\ last' = NoOp
  /\ UNCHANGED <<jobs, claims, sess, nextId, starting, now, besideCli>>

\* The timer of the watch command fires.
WatchPoll ==
  LET j == cli.watch.id IN
  /\ cli.watch.pc = "polling" /\ cli.watch.interval = "set"
  /\ \E capOk \in (IF SessionUp(j) THEN BOOLEAN ELSE {FALSE}),
        readOk \in (IF ~SessionUp(j) THEN BOOLEAN ELSE {FALSE}) :
      \E fullOk \in (IF ConsultsFull(j, capOk) THEN BOOLEAN ELSE {FALSE}) :
        LET output == getJobOutput(j, WatchLines, capOk, readOk)
            r == refreshJobStatus(j, capOk, fullOk, readOk)
        IN /\ jobs' = IF r.wrote THEN saveJob(jobs, j, r.job) ELSE jobs
           /\ cli' = [cli EXCEPT !.watch = watchPoll(@, output, r.job)]
           /\ last' = [Op("watchPoll", j, jobs[j]) EXCEPT
                         !.capOk = capOk, !.fullOk = fullOk, !.readOk = readOk,
                         !.wrote = r.wrote, !.ret = r.job.status # "none"]
  /\ UNCHANGED <<claims, sess, nextId, starting, now, besideCli>>

\* Ctrl+C while watching.
WatchSigint ==
  /\ cli.watch.pc = "polling"
  /\ cli' = [cli EXCEPT !.watch = watchSigint(@)]
  /\ last' = NoOp
  /\ UNCHANGED <<jobs, claims, sess, nextId, starting, now, besideCli>>

\* refresh() of runDashboard: nothing once running is false; otherwise the
\* running jobs are refreshed and the list is rendered.
DashRefresh(d) ==
  IF ~d.running
  THEN UNCHANGED <<jobs, last>> /\ cli' = [cli EXCEPT !.dash = d]
  ELSE \E capOks \in SUBSET {j \in JobIds : ConsultsCapture(j)},
          readOks \in SUBSET {j \in JobIds : ConsultsRead(j)} :
         \E fullOks \in SUBSET {j \in capOks : ConsultsFull(j, TRUE)} :
           LET refreshed == refreshRunningJobs(capOks, fullOks, readOks) IN
           /\ jobs' = refreshed
           /\ last' = Op("dashboardTick", 0, NoJob)
           /\ cli' = [cli EXCEPT
                        !.dash = [d EXCEPT !.screen =
                                    [j \in JobIds |-> refreshed[j].status]]]

\* runDashboard(intervalMs): the first refresh, then the timer is set.
DashStart ==
  /\ cli.dash.pc = "none"
  /\ DashRefresh([dashStart(cli.dash) EXCEPT !.interval = "set"])
  /\ UNCHANGED <<claims, sess, nextId, starting, now, besideCli>>

\* The timer of the dashboard fires.
DashTick ==
  /\ cli.dash.pc = "polling" /\ cli.dash.interval = "set"
  /\ DashRefresh(cli.dash)
  /\ UNCHANGED <<claims, sess, nextId, starting, now, besideCli>>

\* Ctrl+C on the dashboard.
DashSigint ==
  /\ cli.dash.pc = "polling"
  /\ cli' = [cli EXCEPT !.dash = dashSigint(@)]
  /\ last' = NoOp
  /\ UNCHANGED <<jobs, claims, sess, nextId, starting, now, besideCli>>

LoopInit ==
  /\ IdIdle /\ StoreIdle /\ AdapterIdle /\ ClaimIdle /\ CallIdle
  /\ RegistryInit(1)
  /\ cli = [watch |-> NoLoop, dash |-> NoLoop]

LoopNext ==
  \/ StartJobBegin
  \/ \E j \in JobIds : StartJobFinish(j)
  \/ \E j \in JobIds : AgentOutput(j)
  \/ \E j \in JobIds : AgentExit(j)
  \/ \E j \in JobIds : SessionVanish(j)
  \/ \E j \in JobIds : KillJob(j)
  \/ \E j \in JobIds : DeleteJob(j)
  \/ \E j \in JobIds : WatchStart(j)
  \/ WatchPoll
  \/ WatchSigint
  \/ DashStart
  \/ DashTick
  \/ DashSigint

\* A watch command and a dashboard beside one job and its session.
LoopSpec == LoopInit /\ [][LoopNext]_vars

\* C34: a poll of the watch loop that finds the refreshed status no longer
\* running clears the interval and exits, a poll that finds it running goes
\* on, and no poll follows the exit; after SIGINT the dashboard refreshes no
\* job and renders nothing.
C34_LoopsStop ==
  [][/\ cli.watch.pc = "exited" => last'.op # "watchPoll"
     /\ last'.op = "watchPoll" =>
          LET status == jobs'[last'.id].status IN
          /\ status \in TerminalStatuses \cup {"pending"} =>
               /\ cli'.watch.interval = "cleared"
               /\ cli'.watch.pc = "exited"
          /\ status = "running" =>
               /\ cli'.watch.interval = "set"
               /\ cli'.watch.pc = "polling"
     /\ cli.dash.sigint =>
          /\ last'.op # "dashboardTick"
          /\ cli'.dash.screen = cli.dash.screen
          /\ cli'.dash.pc = "exited"]_vars

\* C34 witness: the watch loop has just exited at a poll that found its job
\* failed, after a dashboard that had shown the job running was stopped.
C34_Witness ==
  /\ last.op = "watchPoll"
  /\ last.pre.status = "running"
  /\ jobs[last.id].status = "failed"
  /\ cli.watch.pc = "exited"
  /\ cli.dash.sigint
  /\ cli.dash.screen = <<"running">>

\* ================================================= kill beside a refresh
\* A call that has not begun: no record loaded.
NoCallYet == [pc |-> "none", job |-> NoJob]

\* refreshJobStatus(jobId) in one coordinator: the record is loaded.
RefreshLoad(j) ==
  /\ cli.refresh.pc = "none"
  /\ jobs[j].status = "running"
  /\ cli' = [cli EXCEPT !.refresh = [pc |-> "loaded", job |-> loadJob(j)]]
  /\ last' = NoOp
  /\ UNCHANGED <<jobs, claims, sess, nextId, starting, now, besideCli>>

\* ... then the session is looked at and the record saved if it changed.
RefreshFinish(j) ==
  /\ cli.refresh.pc = "loaded"
  /\ \E capOk \in (IF SessionUp(j) THEN BOOLEAN ELSE {FALSE}),
        readOk \in (IF ~SessionUp(j) THEN BOOLEAN ELSE {FALSE}) :
      \E fullOk \in (IF capOk /\ Contains(VisiblePane(j), Marker)
                     THEN BOOLEAN ELSE {FALSE}) :
        LET r == refreshLoaded(cli.refresh.job, j, capOk, fullOk, readOk) IN
        /\ jobs' = IF r.wrote THEN saveJob(jobs, j, r.job) ELSE jobs
        /\ last' = [Op("refresh", j, cli.refresh.job) EXCEPT
                      !.capOk = capOk, !.fullOk = fullOk, !.readOk = readOk,
                      !.wrote = r.wrote, !.ret = TRUE]
  /\ cli' = [cli EXCEPT !.refresh.pc = "done"]
  /\ UNCHANGED <<claims, sess, nextId, starting, now, besideCli>>

\* killJob(jobId) in another coordinator: the record is loaded and its
\* session killed.
KillLoad(j) ==
  /\ cli.kill.pc = "none"
  /\ jobs[j].status = "running"
  /\ \E killOk \in (IF SessionUp(j) THEN BOOLEAN ELSE {FALSE}) :
       sess' = IF loadJob(j).tmuxSession THEN SessAfterKill(j, killOk) ELSE sess
  /\ cli' = [cli EXCEPT !.kill = [pc |-> "loaded", job |-> loadJob(j)]]
  /\ last' = NoOp
  /\ UNCHANGED <<jobs, claims, nextId, starting, now, besideCli>>

\* ... then the record is saved as cancelled and the claims are released.
KillFinish(j) ==
  /\ cli.kill.pc = "loaded"
  /\ jobs' = saveJob(jobs, j, cancelled(cli.kill.job))
  /\ claims' = removeClaims(loadClaims, j)
  /\ cli' = [cli EXCEPT !.kill.pc = "done"]
  /\ last' = [Op("kill", j, cli.kill.job) EXCEPT !.ret = TRUE, !.wrote = TRUE,
                                                 !.count = Cardinality(ClaimsOf(j))]
  /\ UNCHANGED <<sess, nextId, starting, now, besideCli>>

KillRaceInit ==
  /\ IdIdle /\ StoreIdle /\ AdapterIdle /\ ClaimIdle /\ CallIdle
  /\ RegistryInit(1)
  /\ cli = [refresh |-> NoCallYet, kill |-> NoCallYet]

KillRaceNext ==
  \/ StartJobBegin
  \/ \E j \in JobIds : StartJobFinish(j)
  \/ \E j \in JobIds : AgentOutput(j)
  \/ \E j \in JobIds : AgentExit(j)
  \/ \E j \in JobIds : RefreshLoad(j)
  \/ \E j \in JobIds : RefreshFinish(j)
  \/ \E j \in JobIds : KillLoad(j)
  \/ \E j \in JobIds : KillFinish(j)

\* One coordinator refreshes a running job while another kills it.
KillRaceSpec == KillRaceInit /\ [][KillRaceNext]_vars

\* C35: a killJob and a refreshJobStatus of the same running job have both
\* finished: the record is cancelled and the job holds no claims.
C35_KillWinsRace ==
  cli.refresh.pc = "done" /\ cli.kill.pc = "done" =>
    \A j \in JobIds :
      /\ jobs[j].status = "cancelled"
      /\ ClaimsOf(j) = {}

\* ============================================================= watchSession
\* The lines watchSession captures at each tick.
WatchSessionLines == 100

\* The pane as one text: its lines joined by line breaks.
PaneText(lines) == join([i \in 1..Len(lines) |-> <<lines[i]>>])

\* watchSession before its first tick.  prev, seen and callback tell what the
\* latest tick had as lastContent, what it captured and what it handed to the
\* callback (<<>>: the callback was not invoked).
NoWatch ==
  [interval |-> "none", running |-> FALSE, id |-> 0, lastContent |-> <<>>,
   prev |-> <<>>, seen |-> <<>>, callback |-> <<>>, stopped |-> FALSE]

\* A tick that hands the callback the whole pane.
watchSessionTickWhole(w, content, exists) ==
  IF ~w.running THEN [w EXCEPT !.callback = <<>>]
  ELSE LET changed == content # Null /\ content # <<>> /\ content # w.lastContent
           told == [w EXCEPT
                      !.prev = w.lastContent, !.seen = content,
                      !.callback = IF changed THEN <<content>> ELSE <<>>,
                      !.lastContent = IF changed THEN content ELSE @]
       IN IF ~exists THEN [told EXCEPT !.running = FALSE, !.interval = "cleared"]
          ELSE told

\* The setInterval callback of watchSession, given what capturePane and
\* sessionExists returned.
watchSessionTick(w, content, exists) ==
  IF ~w.running THEN [w EXCEPT !.callback = <<>>]
  ELSE LET changed == content # Null /\ content # <<>> /\ content # w.lastContent
           newContent == IF changed THEN incrementalDiff(w.lastContent, content)
                         ELSE <<>>
           told == [w EXCEPT
                      !.prev = w.lastContent, !.seen = content,
                      !.callback = IF newContent # <<>> THEN <<newContent>> ELSE <<>>,
                      !.lastContent = IF changed THEN content ELSE @]
       IN IF ~exists THEN [told EXCEPT !.running = FALSE, !.interval = "cleared"]
          ELSE told

\* stop() of the handle watchSession returns.
watchSessionStop(w) ==
  [w EXCEPT !.running = FALSE, !.interval = "cleared", !.stopped = TRUE]

\* watchSession(sessionName, callback, intervalMs).
WatchSession(j) ==
  /\ cli.interval = "none"
  /\ cli' = [NoWatch EXCEPT !.interval = "set", !.running = TRUE, !.id = j]
  /\ last' = NoOp
  /\ UNCHANGED <<jobs, claims, sess, nextId, starting, now, besideCli>>

\* The timer fires.
WatchSessionTick ==
  LET j == cli.id IN
  /\ cli.interval = "set"
  /\ \E capOk \in (IF SessionUp(j) THEN BOOLEAN ELSE {FALSE}) :
       LET pane == capturePane(j, WatchSessionLines, "none", capOk)
           content == IF pane = Null THEN Null ELSE PaneText(pane)
       IN cli' = watchSessionTick(cli, content, sessionExists(j))
  /\ last' = Op("watchSessionTick", j, jobs[j])
  /\ UNCHANGED <<jobs, claims, sess, nextId, starting, now, besideCli>>

\* The caller stops watching.
WatchSessionStop ==
  /\ cli.interval # "none" /\ ~cli.stopped
  /\ cli' = watchSessionStop(cli)
  /\ last' = NoOp
  /\ UNCHANGED <<jobs, claims, sess, nextId, starting, now, besideCli>>

WatchSessionInit ==
  /\ IdIdle /\ StoreIdle /\ AdapterIdle /\ ClaimIdle /\ CallIdle
  /\ RegistryInit(1)
  /\ cli = NoWatch

WatchSessionNext ==
  \/ StartJobBegin
  \/ \E j \in JobIds : StartJobFinish(j)
  \/ \E j \in JobIds : AgentOutput(j)
  \/ \E j \in JobIds : AgentExit(j)
  \/ \E j \in JobIds : SessionVanish(j)
  \/ \E j \in JobIds : WatchSession(j)
  \/ WatchSessionTick
  \/ WatchSessionStop

\* A watchSession beside one job's session.
WatchSessionSpec == WatchSessionInit /\ [][WatchSessionNext]_vars

\* C36: a tick invokes the callback only with non-empty text, the
\* incrementalDiff of the content captured before and the content captured
\* now, and only when the content captured now is non-empty and differs from
\* the one before; a tick that finds the session gone ends the polling for
\* good; after stop() no tick invokes the callback.
C36_WatchSessionCallback ==
  [][/\ (last'.op = "watchSessionTick" /\ cli'.callback # <<>>) =>
          /\ cli'.callback[1] # <<>>
          /\ cli'.callback[1] = incrementalDiff(cli.lastContent, cli'.seen)
          /\ cli'.seen \notin {Null, <<>>, cli.lastContent}
          /\ cli'.seen = PaneText(VisiblePane(cli.id))
     /\ (last'.op = "watchSessionTick" /\ ~SessionUp(cli.id)) =>
          cli'.interval = "cleared"
     /\ (last'.op = "watchSessionTick" /\ SessionUp(cli.id)) =>
          cli'.interval = "set"
     /\ cli.interval = "cleared" =>
          /\ last'.op # "watchSessionTick"
          /\ cli'.interval = "cleared"
          /\ cli'.callback = cli.callback]_vars

\* C36 witness: the pane moved on by one line between two ticks and the
\* callback was handed that line alone.
C36_Witness ==
  /\ last.op = "watchSessionTick"
  /\ Len(split(cli.prev)) = PaneHeight
  /\ Len(split(cli.seen)) = PaneHeight
  /\ cli.callback = << <<Marker>> >>

\* ========================================================== the clean command
\* The age, in days, beyond which the clean command sweeps a finished job.
CleanAgeDays == 7

\* An active set made of the running and pending jobs only.
activeIdsUnfinished(store) ==
  {j \in DOMAIN store : store[j].status \in {"running", "pending"}}

\* new Set(listJobs().map((j) => j.id)) over the registry given.
activeIds(store) == {j \in DOMAIN store : store[j].status # "none"}

\* The clean command: the sweep, then the claims of unlisted jobs dropped.
Clean ==
  LET swept == cleanupOldJobs(CleanAgeDays)
      kept == [j \in JobIds |-> IF j \in swept THEN deleteJob(jobs, j)[j]
                                ELSE jobs[j]]
      stale == cleanStaleClaims(loadClaims, activeIds(kept))
  IN /\ jobs' = kept
     /\ claims' = stale.claims
     /\ last' = [Op("clean", 0, NoJob) EXCEPT !.age = CleanAgeDays,
                                              !.count = Cardinality(swept),
                                              !.ret = stale.removed > 0]
     /\ UNCHANGED <<sess, nextId, starting, now, otherVars>>

\* More than a week goes by.
WeekPasses ==
  /\ now < MaxTime
  /\ now' = now + CleanAgeDays + 1
  /\ last' = NoOp
  /\ UNCHANGED <<jobs, claims, sess, nextId, starting, otherVars>>

CleanInit == InitWith(CleanJobs)

CleanNext ==
  \/ StartJobBegin
  \/ \E j \in JobIds : StartJobFinish(j)
  \/ \E j \in JobIds : SessionVanish(j)
  \/ \E j \in JobIds : RefreshJobStatus(j)
  \/ \E j \in JobIds : DeleteJob(j)
  \/ WeekPasses
  \/ Clean

\* Jobs that start with their claims, end or are deleted over the weeks, and
\* the clean command.  (A killed job has released its claims already.)
CleanSpec == CleanInit /\ [][CleanNext]_vars

\* The claims of a list whose job has a record in the registry given.
RECURSIVE ClaimsWithRecord(_, _)
ClaimsWithRecord(list, store) ==
  IF list = <<>> THEN <<>>
  ELSE (IF store[Head(list).jobId] # NoJob THEN <<Head(list)>> ELSE <<>>)
       \o ClaimsWithRecord(Tail(list), store)

\* C37: after clean the claim store holds exactly the previous claims whose job
\* still has a record after the sweep; no claim of a running or pending job is
\* removed, and every claim of a swept or missing job is.
C37_CleanKeepsRecorded ==
  [][last'.op = "clean" =>
       /\ claims' = ClaimsWithRecord(claims, jobs')
       /\ \A i \in 1..Len(claims) :
            /\ jobs[claims[i].jobId].status \in {"running", "pending"}
                 => \E k \in 1..Len(claims') : claims'[k] = claims[i]
            /\ jobs'[claims[i].jobId] = NoJob
                 => \A k \in 1..Len(claims') : claims'[k].jobId # claims[i].jobId]_vars

\* C37 witness: clean swept a finished job that held a claim and removed the
\* claim, beside a running job whose claim it kept.
C37_Witness ==
  /\ last.op = "clean"
  /\ last.count = 1
  /\ last.ret
  /\ \E j, k \in JobIds :
       /\ jobs[j] = NoJob /\ nextId > j /\ starting[j] = NoTime
       /\ jobs[k].status = "running"
       /\ ClaimsOf(k) # {}
       /\ ClaimsOf(j) = {}

\* ======================================================== start with --retry
\* The start command about to call startJob for the first time.
Starting(n) ==
  [pc |-> "call", retry |-> n, attempt |-> 0, calls |-> 1, reported |-> 0]

\* A retry test that allows one attempt too many.
startWithRetryInclusive(c, j, job) ==
  IF job.status = "failed" /\ c.attempt <= c.retry
  THEN [c EXCEPT !.attempt = @ + 1, !.calls = @ + 1]
  ELSE [c EXCEPT !.pc = "done", !.reported = j]

\* startWithRetry(attempt) once startJob has returned job j: another attempt
\* after the sleep, or the job is returned and reported.
startWithRetry(c, j, job) ==
  IF job.status = "failed" /\ c.attempt < c.retry
  THEN [c EXCEPT !.attempt = @ + 1, !.calls = @ + 1]
  ELSE [c EXCEPT !.pc = "done", !.reported = j]

\* The start command calls startJob ...
RetryStartJob ==
  /\ cli.pc = "call"
  /\ nextId <= cli.calls
  /\ StartJobBegin

\* ... and looks at the job it returned.
RetryDecide ==
  LET j == nextId - 1 IN
  /\ cli.pc = "call"
  /\ nextId = cli.calls + 1
  /\ starting[j] = NoTime
  /\ cli' = startWithRetry(cli, j, jobs[j])
  /\ last' = NoOp
  /\ UNCHANGED <<jobs, claims, sess, nextId, starting, now, besideCli>>

RetryInit ==
  /\ IdIdle /\ StoreIdle /\ AdapterIdle /\ ClaimIdle /\ CallIdle
  /\ RegistryInit(MaxRetry + 2)
  /\ cli \in {Starting(n) : n \in 0..MaxRetry}

RetryNext ==
  \/ RetryStartJob
  \/ \E j \in JobIds : StartJobFinish(j)
  \/ RetryDecide

\* The start command with every retry count up to MaxRetry.  Each call it
\* makes is a blocking call that returns.
RetrySpec == RetryInit /\ [][RetryNext]_vars /\ WF_vars(RetryNext)

\* The jobs startJob has returned so far, and those among them not failed.
Attempted == 1..(nextId - 1)
NotFailed == {j \in Attempted : jobs[j].status # "failed"}

\* C38: start --retry n calls startJob at most n + 1 times, calls it again only
\* when the job of the previous attempt is failed, reports the first job that
\* is not failed or else the job of the last attempt, and terminates.
C38_RetryBounded ==
  /\ [](nextId - 1 <= cli.retry + 1)
  /\ [][nextId' > nextId /\ nextId > 1 => jobs[nextId - 1].status = "failed"]_vars
  /\ [](cli.pc = "done" =>
          /\ cli.reported = nextId - 1
          /\ NotFailed \in {{}, {cli.reported}})
  /\ <>(cli.pc = "done")

\* C38 witness: with --retry 2 the first two attempts failed and the third,
\* which started, is reported.
C38_Witness ==
  /\ cli.pc = "done"
  /\ cli.retry = 2
  /\ cli.reported = 3
  /\ jobs[1].status = "failed" /\ jobs[2].status = "failed"
  /\ jobs[3].status = "running"

\* ================================================================ loadFiles
\* The directory of the loadFiles test, in the order glob walks it: two
\* sources of the same size, a file outside src, a binary file, a file over
\* the size limit, and the directory src itself.
Paths == <<"src", "src/a.ts", "src/b.ts", "src/big.txt", "src/bin.dat", "tmp/skip.ts">>

\* The size above which a file is left out.
MaxFileSize == 500000

Stat(path) ==
  IF path = "src" THEN [isFile |-> FALSE, size |-> 0, binary |-> FALSE, mtime |-> 1]
  ELSE IF path = "src/big.txt"
  THEN [isFile |-> TRUE, size |-> 510000, binary |-> FALSE, mtime |-> 1]
  ELSE IF path = "src/bin.dat"
  THEN [isFile |-> TRUE, size |-> 7, binary |-> TRUE, mtime |-> 1]
  ELSE IF path = "tmp/skip.ts"
  THEN [isFile |-> TRUE, size |-> 9, binary |-> FALSE, mtime |-> 2]
  ELSE [isFile |-> TRUE, size |-> 19, binary |-> FALSE, mtime |-> 1]

\* What each glob of the runs below matches in that directory.
Matching(g) ==
  IF g = "src/**/*" THEN {"src/a.ts", "src/b.ts", "src/big.txt", "src/bin.dat"}
  ELSE IF g = "src/b.ts" THEN {"src/b.ts"}
  ELSE IF g = "tmp/**" THEN {"tmp/skip.ts"}
  ELSE IF g = "**/*.ts" THEN {"src/a.ts", "src/b.ts", "tmp/skip.ts"}
  ELSE IF g = "src*" THEN {"src"}
  ELSE {}

\* glob(patterns, {ignore}): the paths matching one of the patterns and none
\* of the ignored ones, each once.
glob(gs, ignore) ==
  LET Hit(path) == /\ \E g \in gs : path \in Matching(g)
                   /\ \A g \in ignore : path \notin Matching(g)
  IN SelectSeq(Paths, Hit)

\* A file that is taken: a regular file, not over the limit, without NUL.
Loadable(path) ==
  /\ Stat(path).isFile
  /\ ~(Stat(path).size > MaxFileSize)
  /\ ~Stat(path).binary

Negated(pattern) == startsWith(pattern, <<"!">>)

\* The loop over the matches of one pattern.
RECURSIVE takeMatches(_, _)
takeMatches(st, matches) ==
  IF matches = <<>> THEN st
  ELSE LET match == Head(matches) IN
       takeMatches(
         IF match \in st.seen \/ ~Loadable(match) THEN st
         ELSE [files |-> Append(st.files, match), seen |-> st.seen \cup {match}],
         Tail(matches))

\* files.sort: smaller files first, among equals the more recently modified.
Before(a, b) ==
  \/ Stat(a).size < Stat(b).size
  \/ Stat(a).size = Stat(b).size /\ Stat(a).mtime > Stat(b).mtime

RECURSIVE insertSorted(_, _)
insertSorted(sorted, path) ==
  IF sorted = <<>> THEN <<path>>
  ELSE IF Before(path, sorted[Len(sorted)])
  THEN Append(insertSorted(SubSeq(sorted, 1, Len(sorted) - 1), path),
              sorted[Len(sorted)])
  ELSE Append(sorted, path)

RECURSIVE sortFiles(_)
sortFiles(files) ==
  IF files = <<>> THEN <<>>
  ELSE insertSorted(sortFiles(SubSeq(files, 1, Len(files) - 1)), files[Len(files)])

\* The loop of loadFiles over the patterns, one after the other: a negation
\* removes its matches from seen.
RECURSIVE loadEach(_, _)
loadEach(st, patterns) ==
  IF patterns = <<>> THEN st
  ELSE LET pattern == Head(patterns) IN
       loadEach(
         IF Negated(pattern)
         THEN [st EXCEPT !.seen = @ \ Matching(Tail(pattern)[1])]
         ELSE takeMatches(st, glob({pattern[1]}, {})),
         Tail(patterns))

\* loadFiles(patterns, baseDir) of src/files.ts, without a context budget.
loadFiles(patterns) ==
  sortFiles(loadEach([files |-> <<>>, seen |-> {}], patterns).files)

\* loadFiles(patterns, baseDir) of the other copy of files.ts: the negations
\* are handed to glob as its ignore list.
loadFilesIgnoring(patterns) ==
  LET includes == {patterns[i][1] : i \in {k \in 1..Len(patterns) : ~Negated(patterns[k])}}
      excludes == {Tail(patterns[i])[1] : i \in {k \in 1..Len(patterns) : Negated(patterns[k])}}
  IN IF includes = {} THEN <<>>
     ELSE sortFiles(takeMatches([files |-> <<>>, seen |-> {}],
                                LET NoDir(path) == Stat(path).isFile
                                IN SelectSeq(glob(includes, excludes), NoDir)).files)

Globs == {"src/**/*", "src/b.ts", "tmp/**", "**/*.ts", "src*"}

PatternLists ==
  SeqsUpTo({<<g>> : g \in Globs} \cup {<<"!", g>> : g \in Globs}, MaxPatterns)

LoadFiles ==
  /\ call.fn = "none"
  /\ call' = [call EXCEPT !.fn = "loadFiles", !.ret = loadFiles(call.a)]
  /\ UNCHANGED besideCall

LoadFilesIgnoring ==
  /\ call.fn = "none"
  /\ call' = [call EXCEPT !.fn = "loadFiles with ignore",
                          !.ret = loadFilesIgnoring(call.a)]
  /\ UNCHANGED besideCall

FilesInit ==
  /\ IdIdle /\ StoreIdle /\ AdapterIdle /\ ClaimIdle /\ CliIdle /\ RegistryInit(1)
  /\ call \in {Asked(patterns, <<>>) : patterns \in PatternLists}

FilesNext == LoadFiles \/ LoadFilesIgnoring

\* Both copies of loadFiles on every pattern list of the sets above.
FilesSpec == FilesInit /\ [][FilesNext]_vars

\* C39: loadFiles returns no file that matches one of its negation patterns,
\* wherever the negation stands in the list, and returns no file twice.
C39_NegationsExclude ==
  call.fn \in {"loadFiles", "loadFiles with ignore"} =>
    /\ \A i \in 1..Len(call.ret), k \in 1..Len(call.a) :
         Negated(call.a[k]) => call.ret[i] \notin Matching(call.a[k][2])
    /\ \A i, k \in 1..Len(call.ret) : i # k => call.ret[i] # call.ret[k]

====
